---- MODULE Spec2Model ----
(***************************************************************************)
(* A model of the raster data model and raster algebra of SpaPy            *)
(* (src/SpaPy/SpaRasters.py): SpaDatasetRaster, SpaResample and the        *)
(* module-level functions built on them.                                   *)
(*                                                                         *)
(* numpy arrays are objects with identity: the variable heap holds every   *)
(* array that was ever allocated, and a raster refers to its bands and to  *)
(* its mask by their index in heap, so that two rasters sharing an array   *)
(* and an in-place write to an array are both visible in the model.        *)
(* Python's None is the number None; a mask that is None is the array      *)
(* reference 0.  A boolean numpy array holds 1 (True) and 0 (False).       *)
(***************************************************************************)
EXTENDS Integers, Sequences, FiniteSets, TLC

VARIABLES
    heap,       \* Seq of matrices: the numpy arrays allocated so far
    rasters,    \* Seq of SpaDatasetRaster objects (records)
    ret,        \* the last call: operation, inputs, parameters, outcome
    pre         \* heap and rasters as they were when the last call began

vars == <<heap, rasters, ret, pre>>

(***************************************************************************)
(* Bounds of the model.                                                    *)
(***************************************************************************)
MaxVal == 2        \* pixel values are 1..MaxVal
MaxClasses == 2    \* length of the class lists given to Reclassify
MaxSize == 3       \* rows and columns of the rasters that are aligned

None == -1000      \* Python's None, where a number is expected

(***************************************************************************)
(* Matrices (numpy 2D arrays): a sequence of rows.                         *)
(***************************************************************************)
Rows(m) == Len(m)
Cols(m) == IF Len(m) = 0 THEN 0 ELSE Len(m[1])

MatricesOver(h, w, S) == [1..h -> [1..w -> S]]

\* numpy.where(cond, value, array) with a scalar value
NumpyWhere(cond, value, m) ==
    [r \in 1..Rows(m) |-> [c \in 1..Cols(m) |->
        IF cond[r][c] # 0 THEN value ELSE m[r][c]]]

\* numpy.logical_or(a, b) on two arrays of the same shape
LogicalOr(a, b) ==
    [r \in 1..Rows(a) |-> [c \in 1..Cols(a) |->
        IF a[r][c] # 0 \/ b[r][c] # 0 THEN 1 ELSE 0]]

(***************************************************************************)
(* SpaDatasetRaster.  GDALDataset is the GDAL dataset a raster was loaded  *)
(* from (its own copy of the geotransform, the nodata value and the band   *)
(* data), or NoGDALDataset.                                                *)
(***************************************************************************)
NoGDALDataset ==
    [present |-> FALSE, RasterXSize |-> 0, RasterYSize |-> 0, RasterCount |-> 0,
     XMin |-> 0, YMax |-> 0, PixelWidth |-> 0, PixelHeight |-> 0,
     NoDataValue |-> None, DataType |-> 0, Bands |-> <<>>]

GDT_Byte == 1
GDT_Int16 == 3
GDT_Float32 == 6

NewRaster(w, h, bands, mask, nodata, xmin, ymax, pw, ph, gdal) ==
    [WidthInPixels |-> w, HeightInPixels |-> h, NumBands |-> Len(bands),
     NoDataValue |-> nodata, TheMask |-> mask, TheBands |-> bands,
     GDALDataset |-> gdal, GDALDataType |-> GDT_Int16,
     XMin |-> xmin, YMax |-> ymax, PixelWidth |-> pw, PixelHeight |-> ph]

\* CopyPropertiesButNotData, applied to a raster fresh from __init__
\* (TheMask None, TheBands None): every property of R but its data.
CopyPropertiesButNotData(R) ==
    [R EXCEPT !.GDALDataset = NoGDALDataset, !.TheBands = <<>>, !.TheMask = 0]

\* Clone: a copy of every band; a copy of the mask only when the raster has
\* both a NoDataValue and a mask, and no mask otherwise.
Clone(h, R) ==
    LET n == Len(R.TheBands)
        h1 == h \o [i \in 1..n |-> h[R.TheBands[i]]]
        bands == [i \in 1..n |-> Len(h) + i]
        copyMask == (R.NoDataValue # None) /\ (R.TheMask # 0)
        h2 == IF copyMask THEN Append(h1, h[R.TheMask]) ELSE h1
    IN  [heap |-> h2,
         raster |-> [CopyPropertiesButNotData(R) EXCEPT
                        !.TheBands = bands,
                        !.TheMask = IF copyMask THEN Len(h2) ELSE 0]]

(***************************************************************************)
(* A Python local that holds an array: ref > 0 is an array of the heap     *)
(* (the local aliases it), ref = 0 is None, ref = -1 is an array made by   *)
(* this call and not yet stored; val is the array's content.               *)
(***************************************************************************)
Alias(h, id) == [ref |-> id, val |-> IF id = 0 THEN <<>> ELSE h[id]]
Fresh(m) == [ref |-> -1, val |-> m]

\* The heap once the locals ls (a sequence) are stored, and their ids.
StoreAll(h, ls) ==
    LET isNew(i) == ls[i].ref = -1
        newBefore(i) == Cardinality({j \in 1..i : isNew(j)})
        news == {i \in 1..Len(ls) : isNew(i)}
        nth(k) == CHOOSE i \in news : newBefore(i) = k
    IN  [heap |-> h \o [k \in 1..Cardinality(news) |-> ls[nth(k)].val],
         ids |-> [i \in 1..Len(ls) |->
                    IF isNew(i) THEN Len(h) + newBefore(i) ELSE ls[i].ref]]

(***************************************************************************)
(* Reclassify                                                              *)
(***************************************************************************)
\* A variant that also takes the lower bound of a range into the class.
ClassMatchesClosedBelow(mode, v, Range) ==
    IF mode = "discrete" THEN v = Range
    ELSE (v >= Range[1]) /\ (v <= Range[2])

\* The comparison of one pixel with a class: TheBand==Range in discrete
\* mode, TheBand>Range[0] and TheBand<=Range[1] in range mode.
ClassMatches(mode, v, Range) ==
    IF mode = "discrete" THEN v = Range
    ELSE (v > Range[1]) /\ (v <= Range[2])

BooleanArray(mode, m, Range) ==
    [r \in 1..Rows(m) |-> [c \in 1..Cols(m) |->
        IF ClassMatches(mode, m[r][c], Range) THEN 1 ELSE 0]]

\* A variant that replaces the mask by the pixels of the class.
MaskStepOverwrite(TheMask, Boolean) == Fresh(Boolean)

\* One step of the mask loop: OR the pixels of a None class into the mask.
MaskStep(TheMask, Boolean) ==
    IF TheMask.ref # 0 THEN Fresh(LogicalOr(Boolean, TheMask.val))
    ELSE Fresh(Boolean)

\* The first loop: the pixels of the first band that fall in a class whose
\* output is None are added to the mask.
RECURSIVE ReclassifyMask(_, _, _, _, _, _)
ReclassifyMask(TheBand, InputClasses, OutputClasses, mode, Index, TheMask) ==
    IF Index > Len(InputClasses) THEN TheMask
    ELSE ReclassifyMask(TheBand, InputClasses, OutputClasses, mode, Index + 1,
            IF OutputClasses[Index] = None
            THEN MaskStep(TheMask, BooleanArray(mode, TheBand, InputClasses[Index]))
            ELSE TheMask)

\* The second loop, for one band: each class with an output rewrites the
\* pixels of the band AS IT IS NOW that fall in the class.
RECURSIVE ReclassifyBand(_, _, _, _, _)
ReclassifyBand(TheBand, InputClasses, OutputClasses, mode, Index) ==
    IF Index > Len(InputClasses) THEN TheBand
    ELSE ReclassifyBand(
            IF OutputClasses[Index] # None
            THEN Fresh(NumpyWhere(BooleanArray(mode, TheBand.val, InputClasses[Index]),
                                  OutputClasses[Index], TheBand.val))
            ELSE TheBand,
            InputClasses, OutputClasses, mode, Index + 1)

\* SetBands: the bands are replaced and the GDAL dataset is dropped.
SetBands(R, bands) == [R EXCEPT !.TheBands = bands, !.GDALDataset = NoGDALDataset]

Reclassify(h, R, InputClasses, OutputClasses, mode) ==
    LET cl == Clone(h, R)
        TheMask == ReclassifyMask(h[R.TheBands[1]], InputClasses, OutputClasses,
                                  mode, 1, Alias(h, R.TheMask))
        NewBands == [b \in 1..Len(R.TheBands) |->
                        ReclassifyBand(Alias(h, R.TheBands[b]), InputClasses,
                                       OutputClasses, mode, 1)]
        st == StoreAll(cl.heap, Append(NewBands, TheMask))
        n == Len(NewBands)
    IN  [heap |-> st.heap,
         raster |-> [SetBands(cl.raster, SubSeq(st.ids, 1, n)) EXCEPT
                        !.TheMask = st.ids[n + 1]]]

(***************************************************************************)
(* Georeferencing.  Reference coordinates and pixel sizes are integers;    *)
(* the rasters of the model are chosen so that every pixel size the code   *)
(* computes is an integer too (ExactPixelSizes below checks it).           *)
(***************************************************************************)
\* GetBounds: (XMin, YMin, XMax, YMax)
GetBounds(R) ==
    <<R.XMin, R.YMax + (R.HeightInPixels * R.PixelHeight),
      R.XMin + (R.WidthInPixels * R.PixelWidth), R.YMax>>

\* floor(n/d) and floor(n/d + 1/2) for d > 0
FloorDiv(n, d) == n \div d
FloorHalfUp(n, d) == ((2 * n) + d) \div (2 * d)

\* Python's round(n/d) for n >= 0, d > 0: to the nearest, a half to the even
RoundHalfEven(n, d) ==
    LET q == n \div d
        r == n % d
    IN  IF 2 * r < d THEN q
        ELSE IF 2 * r > d THEN q + 1
        ELSE IF q % 2 = 0 THEN q ELSE q + 1

(***************************************************************************)
(* The GDAL side of a raster: gdal.Translate with projWin and Load.        *)
(***************************************************************************)
SubMatrix(m, r0, c0, h, w) == [r \in 1..h |-> [c \in 1..w |-> m[r0 + r][c0 + c]]]

\* gdal.Translate('', G, format="MEM", projWin=[ulx, uly, lrx, lry]): the
\* source window is the projWin in pixels of G, its offset floored and its
\* size rounded to whole pixels; a window of no width or height is refused
\* (the result is then no dataset).
Translate(G, projWin) ==
    LET xoff == FloorDiv(projWin[1] - G.XMin, G.PixelWidth)
        yoff == FloorDiv(G.YMax - projWin[2], -G.PixelHeight)
        xsize == FloorHalfUp(projWin[3] - projWin[1], G.PixelWidth)
        ysize == FloorHalfUp(projWin[2] - projWin[4], -G.PixelHeight)
    IN  IF xsize <= 0 \/ ysize <= 0 THEN NoGDALDataset
        ELSE [G EXCEPT !.RasterXSize = xsize, !.RasterYSize = ysize,
                       !.XMin = G.XMin + (xoff * G.PixelWidth),
                       !.YMax = G.YMax + (yoff * G.PixelHeight),
                       !.Bands = [b \in 1..Len(G.Bands) |->
                                    SubMatrix(G.Bands[b], yoff, xoff, ysize, xsize)]]

\* numpy.equal(TheBand, NoDataValue)
EqualArray(m, value) ==
    [r \in 1..Rows(m) |-> [c \in 1..Cols(m) |-> IF m[r][c] = value THEN 1 ELSE 0]]

\* Load(G) followed by the GetBands it ends with, on a raster without bands:
\* the properties are those of G, a NoDataValue of 0 is read as None, every
\* band is read into a new array and the mask is where the first band
\* equals the NoDataValue.
Load(h, G) ==
    LET nodata == IF G.NoDataValue = 0 THEN None ELSE G.NoDataValue
        n == G.RasterCount
        h1 == h \o G.Bands
        hasMask == (nodata # None) /\ (n > 0)
        h2 == IF hasMask THEN Append(h1, EqualArray(G.Bands[1], nodata)) ELSE h1
    IN  [heap |-> h2,
         raster |-> [WidthInPixels |-> G.RasterXSize, HeightInPixels |-> G.RasterYSize,
                     NumBands |-> n, NoDataValue |-> nodata,
                     TheMask |-> IF hasMask THEN Len(h2) ELSE 0,
                     TheBands |-> [b \in 1..n |-> Len(h) + b],
                     GDALDataset |-> G, GDALDataType |-> G.DataType,
                     XMin |-> G.XMin, YMax |-> G.YMax,
                     PixelWidth |-> G.PixelWidth, PixelHeight |-> G.PixelHeight]]

(***************************************************************************)
(* A call in progress: the heap, the rasters, whether an exception was     *)
(* raised (status), the bounds given to Crop so far, and the raster the    *)
(* last step returned (res).                                               *)
(***************************************************************************)
Begin(h, rs) == [heap |-> h, rasters |-> rs, status |-> "ok", crops |-> <<>>, res |-> 0]
Raise(ctx, what) == [ctx EXCEPT !.status = what, !.res = 0]
Return(ctx, h, R) ==
    [ctx EXCEPT !.heap = h, !.rasters = Append(ctx.rasters, R),
                !.res = Len(ctx.rasters) + 1]

\* A variant that hands back the raster it was given when it cannot crop.
CropOrKeep(ctx, id, Bounds) ==
    IF ctx.status # "ok" THEN ctx
    ELSE
        LET G == ctx.rasters[id].GDALDataset
            logged == [ctx EXCEPT !.crops = Append(ctx.crops, Bounds)]
            Loaded(ld) == Return(logged, ld.heap, ld.raster)
            Translated(T) == IF ~T.present THEN [logged EXCEPT !.res = id]
                             ELSE Loaded(Load(ctx.heap, T))
        IN  IF ~G.present THEN [logged EXCEPT !.res = id]
            ELSE Translated(Translate(G, <<Bounds[1], Bounds[4], Bounds[3], Bounds[2]>>))

\* SpaResample.Crop: gdal.Translate of the raster's GDAL dataset (not of its
\* arrays), loaded into a new raster.  Without a GDAL dataset, and when
\* Translate returns no dataset, the call raises.
Crop(ctx, id, Bounds) ==
    IF ctx.status # "ok" THEN ctx
    ELSE
        LET G == ctx.rasters[id].GDALDataset
            logged == [ctx EXCEPT !.crops = Append(ctx.crops, Bounds)]
            Loaded(ld) == Return(logged, ld.heap, ld.raster)
            Translated(T) == IF ~T.present THEN Raise(logged, "LoadWithoutDataset")
                             ELSE Loaded(Load(ctx.heap, T))
        IN  IF ~G.present THEN Raise(logged, "TranslateWithoutDataset")
            \* NewBounds=[Bounds[0],Bounds[3],Bounds[2],Bounds[1]]
            ELSE Translated(Translate(G, <<Bounds[1], Bounds[4], Bounds[3], Bounds[2]>>))

(***************************************************************************)
(* SpaResample.Scale                                                       *)
(***************************************************************************)
Uncomputed == -777     \* a pixel value that the model does not compute: an
                       \* interpolated value, a quotient or a root that is no
                       \* integer, a logarithm

IsConstant(m) == \A r \in 1..Rows(m), c \in 1..Cols(m) : m[r][c] = m[1][1]

\* scipy.ndimage.zoom(m, num/den): the output has round(rows*zoom) rows and
\* round(columns*zoom) columns; output pixel i of n' is interpolated at the
\* input coordinate i*(n-1)/(n'-1).  The model computes the pixels that fall
\* on an input pixel and the pixels of a constant array, and no other.
Zoom(m, num, den) ==
    LET h == RoundHalfEven(Rows(m) * num, den)
        w == RoundHalfEven(Cols(m) * num, den)
        onGrid(i, n, nOut) == (nOut = 1) \/ (((i - 1) * (n - 1)) % (nOut - 1) = 0)
        at(i, n, nOut) == IF nOut = 1 THEN 1 ELSE (((i - 1) * (n - 1)) \div (nOut - 1)) + 1
    IN  [r \in 1..h |-> [c \in 1..w |->
            IF IsConstant(m) THEN m[1][1]
            ELSE IF onGrid(r, Rows(m), h) /\ onGrid(c, Cols(m), w)
                 THEN m[at(r, Rows(m), h)][at(c, Cols(m), w)]
                 ELSE Uncomputed]]

\* InputBand[InputBand<0.00000001] = 0, written into the input's own array
ZeroBelowEpsilon(m) ==
    [r \in 1..Rows(m) |-> [c \in 1..Cols(m) |-> IF m[r][c] < 1 THEN 0 ELSE m[r][c]]]

SeqRange(s) == {s[i] : i \in 1..Len(s)}

Scale(ctx, id, num, den) ==
    IF ctx.status # "ok" THEN ctx
    ELSE
        LET R == ctx.rasters[id]
            n == R.NumBands
            Zoomed(h1, OutputBands, OutputMask) ==
                Return(ctx, h1 \o OutputBands \o OutputMask,
                       [CopyPropertiesButNotData(R) EXCEPT
                          !.PixelHeight = (R.PixelHeight * den) \div num,
                          !.PixelWidth = (R.PixelWidth * den) \div num,
                          !.HeightInPixels = IF n = 0 THEN R.HeightInPixels
                                             ELSE Rows(OutputBands[n]),
                          !.WidthInPixels = IF n = 0 THEN R.WidthInPixels
                                            ELSE Cols(OutputBands[n]),
                          !.TheBands = [b \in 1..n |-> Len(h1) + b],
                          !.TheMask = IF R.TheMask # 0 THEN Len(h1) + n + 1 ELSE 0])
            Zeroed(h1) ==
                Zoomed(h1, [b \in 1..n |-> Zoom(h1[R.TheBands[b]], num, den)],
                       IF R.TheMask # 0 THEN <<Zoom(h1[R.TheMask], num, den)>> ELSE <<>>)
        IN  Zeroed([i \in 1..Len(ctx.heap) |->
                      IF i \in SeqRange(R.TheBands) THEN ZeroBelowEpsilon(ctx.heap[i])
                      ELSE ctx.heap[i]])

\* Resample(Input1, ZoomFactor)
Resample(ctx, id, num, den) == Scale(ctx, id, num, den)

(***************************************************************************)
(* ResampleToMatch(TheDataset1, TheDataset2): ctx.res is not used; the     *)
(* pair returned is in out.                                                *)
(***************************************************************************)
Max(a, b) == IF a > b THEN a ELSE b
Min(a, b) == IF a < b THEN a ELSE b

\* A variant with YMin and YMax in each other's place.
CropBoundsYSwapped(TheBounds1, TheBounds2) ==
    <<Max(TheBounds1[1], TheBounds2[1]), Min(TheBounds1[4], TheBounds2[4]),
      Min(TheBounds1[3], TheBounds2[3]), Max(TheBounds1[2], TheBounds2[2])>>

\* The rectangle both rasters are cropped to
CropBounds(TheBounds1, TheBounds2) ==
    <<Max(TheBounds1[1], TheBounds2[1]), Max(TheBounds1[2], TheBounds2[2]),
      Min(TheBounds1[3], TheBounds2[3]), Min(TheBounds1[4], TheBounds2[4])>>

\* Which raster is resampled, and by what zoom factor <<num, den>>:
\* 0 for neither.
ResampleChoice(Resolution1, Resolution2) ==
    IF Resolution1 < Resolution2 THEN <<2, Resolution2, Resolution1>>
    ELSE IF Resolution1 > Resolution2 THEN <<1, Resolution1, Resolution2>>
    ELSE <<0, 1, 1>>

ResampleToMatch(ctx, id1, id2) ==
    IF ctx.status # "ok" THEN [ctx |-> ctx, out |-> <<>>]
    ELSE
        LET TheBounds1 == GetBounds(ctx.rasters[id1])
            TheBounds2 == GetBounds(ctx.rasters[id2])
            choice == ResampleChoice(ctx.rasters[id1].PixelWidth,
                                     ctx.rasters[id2].PixelWidth)
            Pair(c, d1, d2) ==
                [ctx |-> c,
                 out |-> IF c.status # "ok" THEN <<>>
                         ELSE <<IF choice[1] = 1 THEN c.res ELSE d1,
                                IF choice[1] = 2 THEN c.res ELSE d2>>]
            \* the resolutions are those read before the crop
            SameBounds(c, d1, d2) ==
                Pair(IF choice[1] = 2 THEN Resample(c, d2, choice[2], choice[3])
                     ELSE IF choice[1] = 1 THEN Resample(c, d1, choice[2], choice[3])
                     ELSE c,
                     d1, d2)
            Cropped2(c, d1) == SameBounds(c, d1, c.res)
            Cropped1(c) == Cropped2(Crop(c, id2, CropBounds(TheBounds1, TheBounds2)), c.res)
        IN  IF TheBounds1 # TheBounds2
            THEN Cropped1(Crop(ctx, id1, CropBounds(TheBounds1, TheBounds2)))
            ELSE SameBounds(ctx, id1, id2)

(***************************************************************************)
(* SpaDatasetRaster.Math                                                   *)
(***************************************************************************)
SPAMATH_ADD == 1
SPAMATH_SUBTRACT == 2
SPAMATH_MULTIPLY == 3
SPAMATH_DIVIDE == 4
SPAMATH_ROUND == 100
SPAMATH_ROUND_INTEGER == 101
SPAMATH_ROUND_FIX == 102
SPAMATH_ROUND_FLOOR == 103
SPAMATH_ROUND_CEIL == 104
SPAMATH_ROUND_TRUNC == 105
SPAMATH_AND == 201
SPAMATH_OR == 202
SPAMATH_NOT == 203
SPAMATH_LESS == 204
SPAMATH_LESS_OR_EQUAL == 205
SPAMATH_EQUAL == 206
SPAMATH_NOT_EQUAL == 207
SPAMATH_GREATER == 208
SPAMATH_GREATER_OR_EQUAL == 209
SPAMATH_NATURAL_LOG == 300
SPAMATH_LOG == 301
SPAMATH_EXPONENT == 302
SPAMATH_SQUARE == 303
SPAMATH_SQUARE_ROOT == 304
SPAMATH_ABSOLUTE == 305
SPAMATH_MAX == 306
SPAMATH_MIN == 307
SPAMATH_POWER == 309

\* The operations whose result is converted with astype(int) and typed Byte
BooleanOperations ==
    {SPAMATH_EQUAL, SPAMATH_NOT_EQUAL, SPAMATH_GREATER, SPAMATH_LESS,
     SPAMATH_GREATER_OR_EQUAL, SPAMATH_LESS_OR_EQUAL, SPAMATH_AND, SPAMATH_OR,
     SPAMATH_MAX, SPAMATH_MIN}

\* The operations the raster branch has a case for
RasterOperations == {SPAMATH_ADD, SPAMATH_SUBTRACT, SPAMATH_MULTIPLY, SPAMATH_DIVIDE}
                        \cup BooleanOperations

\* The operations the scalar branch has a case for (no MAX, no MIN)
ScalarOperations ==
    (RasterOperations \ {SPAMATH_MAX, SPAMATH_MIN})
        \cup {SPAMATH_NOT, SPAMATH_ROUND, SPAMATH_ROUND_INTEGER, SPAMATH_ROUND_FIX,
              SPAMATH_ROUND_FLOOR, SPAMATH_ROUND_CEIL, SPAMATH_ROUND_TRUNC,
              SPAMATH_NATURAL_LOG, SPAMATH_LOG, SPAMATH_EXPONENT, SPAMATH_POWER,
              SPAMATH_SQUARE, SPAMATH_SQUARE_ROOT, SPAMATH_ABSOLUTE}

\* A variant in which True is the byte 255.
BoolAs255(b) == IF b THEN 255 ELSE 0

Bool(b) == IF b THEN 1 ELSE 0

RECURSIVE Power(_, _)
Power(a, n) == IF n <= 0 THEN 1 ELSE a * Power(a, n - 1)

\* The numpy function of an operation, on one pixel a and the operand b
PixelMath(Operation, a, b) ==
    IF a = Uncomputed \/ b = Uncomputed THEN Uncomputed
    ELSE CASE Operation = SPAMATH_ADD -> a + b
           [] Operation = SPAMATH_SUBTRACT -> a - b
           [] Operation = SPAMATH_MULTIPLY -> a * b
           [] Operation = SPAMATH_DIVIDE ->
                IF b # 0 /\ a % (IF b < 0 THEN -b ELSE b) = 0
                THEN (IF b < 0 THEN -1 ELSE 1) * (a \div (IF b < 0 THEN -b ELSE b))
                ELSE Uncomputed
           [] Operation = SPAMATH_EQUAL -> Bool(a = b)
           [] Operation = SPAMATH_NOT_EQUAL -> Bool(a # b)
           [] Operation = SPAMATH_GREATER -> Bool(a > b)
           [] Operation = SPAMATH_LESS -> Bool(a < b)
           [] Operation = SPAMATH_GREATER_OR_EQUAL -> Bool(a >= b)
           [] Operation = SPAMATH_LESS_OR_EQUAL -> Bool(a <= b)
           [] Operation = SPAMATH_AND -> Bool(a # 0 /\ b # 0)
           [] Operation = SPAMATH_OR -> Bool(a # 0 \/ b # 0)
           [] Operation = SPAMATH_MAX -> Max(a, b)
           [] Operation = SPAMATH_MIN -> Min(a, b)
           [] Operation = SPAMATH_NOT -> Bool(a = 0)
           [] Operation \in {SPAMATH_ROUND, SPAMATH_ROUND_INTEGER, SPAMATH_ROUND_FIX,
                             SPAMATH_ROUND_FLOOR, SPAMATH_ROUND_CEIL,
                             SPAMATH_ROUND_TRUNC} -> a
           [] Operation = SPAMATH_NATURAL_LOG -> IF a = 1 THEN 0 ELSE Uncomputed
           [] Operation = SPAMATH_LOG ->
                IF a = 1 THEN 0 ELSE IF a = 10 THEN 1 ELSE Uncomputed
           [] Operation = SPAMATH_EXPONENT -> IF a = 0 THEN 1 ELSE Uncomputed
           [] Operation = SPAMATH_POWER -> IF b >= 0 THEN Power(a, b) ELSE Uncomputed
           [] Operation = SPAMATH_SQUARE -> a * a
           [] Operation = SPAMATH_SQUARE_ROOT ->
                IF a \in {0, 1} THEN a ELSE IF a = 4 THEN 2 ELSE Uncomputed
           [] Operation = SPAMATH_ABSOLUTE -> IF a < 0 THEN -a ELSE a

\* numpy broadcasting of two 2D arrays: each dimension equal, or 1 in one
Broadcastable(m1, m2) ==
    /\ Rows(m1) = Rows(m2) \/ Rows(m1) = 1 \/ Rows(m2) = 1
    /\ Cols(m1) = Cols(m2) \/ Cols(m1) = 1 \/ Cols(m2) = 1

ArrayMath(Operation, m1, m2) ==
    [r \in 1..Max(Rows(m1), Rows(m2)) |-> [c \in 1..Max(Cols(m1), Cols(m2)) |->
        PixelMath(Operation,
                  m1[IF Rows(m1) = 1 THEN 1 ELSE r][IF Cols(m1) = 1 THEN 1 ELSE c],
                  m2[IF Rows(m2) = 1 THEN 1 ELSE r][IF Cols(m2) = 1 THEN 1 ELSE c])]]

ScalarMath(Operation, m, Input2) ==
    [r \in 1..Rows(m) |-> [c \in 1..Cols(m) |-> PixelMath(Operation, m[r][c], Input2)]]

\* The end of both branches: the clone of the first input gets the new
\* bands (none when the branch has no case for the operation) and, for a
\* boolean operation on a raster with bands, the Byte type.
MathResult(ctx, h, Input1, Operation, NewBands) ==
    LET Cloned(cl) ==
            Return(ctx, cl.heap \o NewBands,
                   SetBands(IF Operation \in BooleanOperations /\ Len(Input1.TheBands) > 0
                            THEN [cl.raster EXCEPT !.GDALDataType = GDT_Byte]
                            ELSE cl.raster,
                            [b \in 1..Len(NewBands) |-> Len(cl.heap) + b]))
    IN  Cloned(Clone(h, Input1))

\* A variant that compares the band counts after the rasters are matched.
RasterMathMatchFirst(ctx, id1, Operation, id2) ==
    LET Matched(rm) ==
            IF rm.ctx.status # "ok" THEN rm.ctx
            ELSE IF ctx.rasters[id1].NumBands # ctx.rasters[id2].NumBands
                 THEN Raise(rm.ctx, "BandCountMismatch")
            ELSE MathResult(rm.ctx, rm.ctx.heap, rm.ctx.rasters[rm.out[1]], Operation,
                            [b \in 1..ctx.rasters[id1].NumBands |->
                                ArrayMath(Operation,
                                          rm.ctx.heap[rm.ctx.rasters[rm.out[1]].TheBands[b]],
                                          rm.ctx.heap[rm.ctx.rasters[rm.out[2]].TheBands[b]])])
    IN  Matched(ResampleToMatch(ctx, id1, id2))

\* Math with a raster operand
RasterMath(ctx, id1, Operation, id2) ==
    IF ctx.rasters[id1].NumBands # ctx.rasters[id2].NumBands
    THEN Raise(ctx, "BandCountMismatch")
    ELSE
        LET Combine(c, Input1, Input2) ==
                LET n == Len(Input1.TheBands)
                    Band1(b) == c.heap[Input1.TheBands[b]]
                    Band2(b) == c.heap[Input2.TheBands[b]]
                IN  IF Operation \notin RasterOperations
                    THEN MathResult(c, c.heap, Input1, Operation, <<>>)
                    ELSE IF \E b \in 1..n : ~Broadcastable(Band1(b), Band2(b))
                         THEN Raise(c, "ShapeMismatch")
                    ELSE MathResult(c, c.heap, Input1, Operation,
                                    [b \in 1..n |->
                                        ArrayMath(Operation, Band1(b), Band2(b))])
            Matched(rm) ==
                IF rm.ctx.status # "ok" THEN rm.ctx
                ELSE Combine(rm.ctx, rm.ctx.rasters[rm.out[1]], rm.ctx.rasters[rm.out[2]])
        IN  Matched(ResampleToMatch(ctx, id1, id2))

\* Math with a scalar operand.  MAX and MIN have no case here but are
\* among the boolean operations, whose conversion then indexes an empty list.
ScalarOperandMath(ctx, id1, Operation, Input2) ==
    LET Input1 == ctx.rasters[id1]
        n == Len(Input1.TheBands)
    IN  IF Operation \in BooleanOperations \ ScalarOperations /\ n > 0
        THEN Raise(ctx, "IndexError")
        ELSE IF Operation \notin ScalarOperations
             THEN MathResult(ctx, ctx.heap, Input1, Operation, <<>>)
        ELSE MathResult(ctx, ctx.heap, Input1, Operation,
                        [b \in 1..n |->
                            ScalarMath(Operation, ctx.heap[Input1.TheBands[b]], Input2)])

(***************************************************************************)
(* The calls.                                                              *)
(***************************************************************************)
NoCall == [op |-> "none", status |-> "ok", ins |-> <<>>, out |-> <<>>,
           params |-> <<>>, crops |-> <<>>]

\* ReclassifyRange / ReclassifyDiscrete: the class lists a caller may give.
ClassBounds == {0, 1, 2}
RangeClasses == {Range \in ClassBounds \X ClassBounds : Range[1] < Range[2]}
DiscreteClasses == {1, 2}
OutputValues == {None, 1, 2}

ReclassifyResult(id, InputClasses, OutputClasses, mode) ==
    LET res == Reclassify(heap, rasters[id], InputClasses, OutputClasses, mode)
    IN  /\ heap' = res.heap
        /\ rasters' = Append(rasters, res.raster)
        /\ ret' = [op |-> "Reclassify", status |-> "ok", ins |-> <<id>>,
                   out |-> <<Len(rasters) + 1>>,
                   params |-> <<InputClasses, OutputClasses, mode>>,
                   crops |-> <<>>]
        /\ pre' = [heap |-> heap, rasters |-> rasters]

ReclassifyCall(id) ==
    /\ ret.op = "none"
    /\ \E mode \in {"range", "discrete"} :
       \E n \in 0..MaxClasses :
       \E InputClasses \in [1..n -> IF mode = "range" THEN RangeClasses ELSE DiscreteClasses] :
       \E OutputClasses \in [1..n -> OutputValues] :
          ReclassifyResult(id, InputClasses, OutputClasses, mode)

\* The raster C of the specification's scenario, 2x2 with pixels
\* [[100,200],[300,400]], and the call ReclassifyRange(C,[(0,150),(150,350)],[1,2]).
ScenarioBand == << <<100, 200>>, <<300, 400>> >>
ScenarioClasses == << <<0, 150>>, <<150, 350>> >>
ScenarioOutputs == <<1, 2>>

ReclassifyScenarioCall(id) ==
    /\ ret.op = "none"
    /\ heap[rasters[id].TheBands[1]] = ScenarioBand
    /\ \E Outputs \in {ScenarioOutputs, <<None, 2>>} :
          ReclassifyResult(id, ScenarioClasses, Outputs, "range")

\* A raster held in memory, one row of pixels, with one or two bands, with
\* or without a mask and with or without a NoDataValue.
Shapes == {<<1, 1>>, <<1, 2>>, <<2, 1>>}      \* <<number of bands, width>>

InitMemoryRaster ==
    \E shape \in Shapes :
    \E bands \in [1..shape[1] -> MatricesOver(1, shape[2], 1..MaxVal)] :
    \E mask \in {<<>>} \cup MatricesOver(1, shape[2], {0, 1}) :
    \E nodata \in {None, 0} :
        /\ heap = IF mask = <<>> THEN bands ELSE Append(bands, mask)
        /\ rasters = <<NewRaster(shape[2], 1, [b \in 1..shape[1] |-> b],
                                 IF mask = <<>> THEN 0 ELSE shape[1] + 1,
                                 nodata, 0, 0, 10, -10, NoGDALDataset)>>

InitScenarioRaster ==
    /\ heap = <<ScenarioBand>>
    /\ rasters = <<NewRaster(2, 2, <<1>>, 0, None, 0, 0, 10, -10, NoGDALDataset)>>

InitReclassify ==
    /\ InitMemoryRaster \/ InitScenarioRaster
    /\ ret = NoCall
    /\ pre = [heap |-> heap, rasters |-> rasters]

NextReclassify == ReclassifyCall(1) \/ ReclassifyScenarioCall(1)

SpecReclassify == InitReclassify /\ [][NextReclassify]_vars

(***************************************************************************)
(* Two rasters to align.  Both were loaded from files (each has its GDAL   *)
(* dataset) or both were built in memory (neither has).  The first has     *)
(* its origin at (0,0); pixels are square or 30 high; every band is filled *)
(* with one value.                                                         *)
(***************************************************************************)
PixelSizes == {10, 15}
PixelHeights(pw) == {-pw, -30}
SecondOrigins == {<<0, 0>>, <<10, -10>>, <<20, 0>>}
Fills == {<<2, 1>>, <<-1, -2>>}

ConstantBand(h, w, v) == [r \in 1..h |-> [c \in 1..w |-> v]]

GDALFile(w, h, xmin, ymax, pw, ph, fill) ==
    [present |-> TRUE, RasterXSize |-> w, RasterYSize |-> h, RasterCount |-> 1,
     XMin |-> xmin, YMax |-> ymax, PixelWidth |-> pw, PixelHeight |-> ph,
     NoDataValue |-> None, DataType |-> GDT_Int16,
     Bands |-> <<ConstantBand(h, w, fill)>>]

\* The heap and the rasters after one more raster is made from G: loaded
\* from it, or built in memory with the same properties and data.
AddRaster(h, rs, G, fromFile) ==
    LET ld == Load(h, G)
    IN  [heap |-> ld.heap,
         rasters |-> Append(rs, IF fromFile THEN ld.raster
                                ELSE [ld.raster EXCEPT !.GDALDataset = NoGDALDataset])]

InitAlign ==
    \E w1 \in 1..MaxSize, h1 \in 1..MaxSize, w2 \in 1..MaxSize, h2 \in 1..MaxSize :
    \E pw1 \in PixelSizes, pw2 \in PixelSizes :
    \E ph1 \in PixelHeights(pw1), ph2 \in PixelHeights(pw2) :
    \E origin \in SecondOrigins, fill \in Fills, fromFile \in BOOLEAN :
        LET one == AddRaster(<<>>, <<>>,
                             GDALFile(w1, h1, 0, 0, pw1, ph1, fill[1]), fromFile)
            two == AddRaster(one.heap, one.rasters,
                             GDALFile(w2, h2, origin[1], origin[2], pw2, ph2, fill[2]),
                             fromFile)
        IN  /\ heap = two.heap
            /\ rasters = two.rasters
            /\ ret = NoCall
            /\ pre = [heap |-> heap, rasters |-> rasters]

\* The outcome of a call in the variables
Finish(op, ins, params, ctx, out) ==
    /\ heap' = ctx.heap
    /\ rasters' = ctx.rasters
    /\ ret' = [op |-> op, status |-> ctx.status, ins |-> ins,
               out |-> IF ctx.status = "ok" THEN out ELSE <<>>,
               params |-> params, crops |-> ctx.crops]
    /\ pre' = [heap |-> heap, rasters |-> rasters]

ResampleToMatchCall(id1, id2) ==
    /\ ret.op = "none"
    /\ LET Returned(rm) == Finish("ResampleToMatch", <<id1, id2>>, <<>>, rm.ctx, rm.out)
       IN  Returned(ResampleToMatch(Begin(heap, rasters), id1, id2))

\* ResampleToMatch applied to the pair it has just returned
ResampleToMatchAgainCall ==
    /\ ret.op = "ResampleToMatch"
    /\ ret.status = "ok"
    /\ LET Returned(rm) == Finish("ResampleToMatchAgain", ret.out, <<>>, rm.ctx, rm.out)
       IN  Returned(ResampleToMatch(Begin(heap, rasters), ret.out[1], ret.out[2]))

AlignedOperations == {SPAMATH_SUBTRACT, SPAMATH_LESS}

RasterMathCall(id1, id2) ==
    /\ ret.op = "none"
    /\ \E Operation \in AlignedOperations :
          LET Returned(c) == Finish("Math", <<id1, id2>>, <<Operation>>, c, <<c.res>>)
          IN  Returned(RasterMath(Begin(heap, rasters), id1, Operation, id2))

NextAlign ==
    \/ ResampleToMatchCall(1, 2)
    \/ ResampleToMatchAgainCall
    \/ RasterMathCall(1, 2)

SpecAlign == InitAlign /\ [][NextAlign]_vars

(***************************************************************************)
(* One raster in memory: it is cloned, a raster and a scalar are combined, *)
(* and a caller writes into an array it got from GetBand or GetMask.       *)
(***************************************************************************)
CloneCall(id) ==
    /\ ret.op = "none"
    /\ LET Returned(cl) == Finish("Clone", <<id>>, <<>>,
                                   Return(Begin(heap, rasters), cl.heap, cl.raster),
                                   <<Len(rasters) + 1>>)
       IN  Returned(Clone(heap, rasters[id]))

MemoryOperations == {SPAMATH_ADD, SPAMATH_GREATER, SPAMATH_MAX}

ScalarMathCall(id) ==
    /\ ret.op = "none"
    /\ \E Operation \in MemoryOperations, Input2 \in {1} :
          LET Returned(c) == Finish("Math", <<id>>, <<Operation, Input2>>, c, <<c.res>>)
          IN  Returned(ScalarOperandMath(Begin(heap, rasters), id, Operation, Input2))

ArraysOf(R) == SeqRange(R.TheBands) \cup (IF R.TheMask # 0 THEN {R.TheMask} ELSE {})

\* After Clone: array[r][c] = v, on an array of the original or of the clone
WriteCall ==
    /\ ret.op = "Clone"
    /\ \E id \in {ret.ins[1], ret.out[1]} :
       \E a \in ArraysOf(rasters[id]) :
       \E p \in {<<r, c>> : r \in 1..Rows(heap[a]), c \in 1..Cols(heap[a])} :
       \E v \in {0, 1} :
          /\ heap[a][p[1]][p[2]] # v
          /\ heap' = [heap EXCEPT ![a][p[1]][p[2]] = v]
          /\ rasters' = rasters
          /\ ret' = [op |-> "Write", status |-> "ok", ins |-> <<ret.ins[1], ret.out[1]>>,
                     out |-> <<id>>, params |-> <<a>>, crops |-> <<>>]
          /\ pre' = [heap |-> heap, rasters |-> rasters]

InitMemory ==
    /\ InitMemoryRaster
    /\ ret = NoCall
    /\ pre = [heap |-> heap, rasters |-> rasters]

NextMemory == CloneCall(1) \/ ScalarMathCall(1) \/ WriteCall

SpecMemory == InitMemory /\ [][NextMemory]_vars

(***************************************************************************)
(* What the claims read from a finished call.                              *)
(***************************************************************************)
InRaster(k) == pre.rasters[ret.ins[k]]          \* k-th input, before the call
OutRaster(k) == rasters[ret.out[k]]             \* k-th returned raster
InBand(k, b) == pre.heap[InRaster(k).TheBands[b]]
OutBand(k, b) == heap[OutRaster(k).TheBands[b]]
PixelsOf(m) == {<<r, c>> : r \in 1..Rows(m), c \in 1..Cols(m)}

\* Whether pixel p is marked invalid by the mask of raster R, in heap h.
Masked(h, R, p) == (R.TheMask # 0) /\ (h[R.TheMask][p[1]][p[2]] # 0)

Reclassified == ret.op = "Reclassify" /\ ret.status = "ok"
InputClassesOf == ret.params[1]
OutputClassesOf == ret.params[2]
ModeOf == ret.params[3]

\* The classes, in input order, whose stated condition the value v meets.
MatchedClasses(v) ==
    {i \in 1..Len(InputClassesOf) :
        IF ModeOf = "discrete" THEN v = InputClassesOf[i]
        ELSE InputClassesOf[i][1] < v /\ v <= InputClassesOf[i][2]}
ValueClasses(v) == {i \in MatchedClasses(v) : OutputClassesOf[i] # None}
NoValueClasses(v) == {i \in MatchedClasses(v) : OutputClassesOf[i] = None}
LastOf(S) == CHOOSE i \in S : \A j \in S : j <= i

(***************************************************************************)
(* C1. Reclassify with overlapping classes: the final value of a pixel is  *)
(* the output of the LAST class, in input order, that the pixel's ORIGINAL *)
(* value matches, whatever the earlier classes wrote.                      *)
(* The code rewrites the band class by class and matches each class        *)
(* against the band as rewritten so far, so this is violated.              *)
(***************************************************************************)
C1_LastMatchingClassWins ==
    Reclassified =>
        \A b \in 1..InRaster(1).NumBands :
        \A p \in PixelsOf(InBand(1, b)) :
            LET v == InBand(1, b)[p[1]][p[2]]
            IN  ValueClasses(v) # {} =>
                    OutBand(1, b)[p[1]][p[2]] = OutputClassesOf[LastOf(ValueClasses(v))]

(***************************************************************************)
(* C2. Reclassify in range mode matches a value v against (lo, hi) exactly *)
(* when lo < v <= hi: a pixel whose original value is in no class with an  *)
(* output keeps its value (so v = lo does not match), a pixel whose value  *)
(* is in such a class is rewritten to one of the outputs (so v = hi        *)
(* matches), with a single class it is rewritten to that class's output,   *)
(* and the scenario [[100,200],[300,400]] gives [[1,2],[2,400]].           *)
(***************************************************************************)
OutputsGiven == {OutputClassesOf[i] : i \in 1..Len(OutputClassesOf)} \ {None}

C2_RangeMatchHalfOpen ==
    (Reclassified /\ ModeOf = "range") =>
        /\ \A b \in 1..InRaster(1).NumBands :
           \A p \in PixelsOf(InBand(1, b)) :
              LET v == InBand(1, b)[p[1]][p[2]]
                  out == OutBand(1, b)[p[1]][p[2]]
              IN  /\ ValueClasses(v) = {} => out = v
                  /\ ValueClasses(v) # {} => out \in OutputsGiven
                  /\ (ValueClasses(v) # {} /\ Len(InputClassesOf) = 1) =>
                        out = OutputClassesOf[1]
        /\ (InBand(1, 1) = ScenarioBand /\ InputClassesOf = ScenarioClasses
                /\ OutputClassesOf = ScenarioOutputs) =>
              OutBand(1, 1) = << <<1, 2>>, <<2, 400>> >>

\* A single class (lo, hi): one pixel equal to lo is kept, another equal to
\* hi is rewritten to another value.
C2_Witness ==
    /\ Reclassified /\ ModeOf = "range" /\ Len(InputClassesOf) = 1
    /\ \E p \in PixelsOf(InBand(1, 1)), q \in PixelsOf(InBand(1, 1)) :
          /\ InBand(1, 1)[p[1]][p[2]] = InputClassesOf[1][1]
          /\ OutBand(1, 1)[p[1]][p[2]] = InputClassesOf[1][1]
          /\ InBand(1, 1)[q[1]][q[2]] = InputClassesOf[1][2]
          /\ OutBand(1, 1)[q[1]][q[2]] = OutputClassesOf[1]
          /\ OutputClassesOf[1] # InputClassesOf[1][2]

(***************************************************************************)
(* C3. Reclassify with None outputs, in range and in discrete mode: a      *)
(* pixel is invalid in the result's mask exactly when it was invalid in    *)
(* the input's mask or its value (in the first band) is in at least one    *)
(* class whose output is None; and a pixel whose value is only in classes  *)
(* whose output is None keeps its value in every band.                     *)
(***************************************************************************)
C3_NoValueClassesMask ==
    Reclassified =>
        /\ \A p \in PixelsOf(InBand(1, 1)) :
              Masked(heap, OutRaster(1), p) <=>
                 (Masked(pre.heap, InRaster(1), p)
                    \/ NoValueClasses(InBand(1, 1)[p[1]][p[2]]) # {})
        /\ \A b \in 1..InRaster(1).NumBands :
           \A p \in PixelsOf(InBand(1, b)) :
              LET v == InBand(1, b)[p[1]][p[2]]
              IN  (NoValueClasses(v) # {} /\ ValueClasses(v) = {}) =>
                      OutBand(1, b)[p[1]][p[2]] = v

\* The input has a mask with an invalid pixel that no None class matches,
\* a None class matches a pixel that was valid, and the result marks both.
C3_Witness ==
    /\ Reclassified
    /\ \E p \in PixelsOf(InBand(1, 1)), q \in PixelsOf(InBand(1, 1)) :
          /\ Masked(pre.heap, InRaster(1), p)
          /\ NoValueClasses(InBand(1, 1)[p[1]][p[2]]) = {}
          /\ ~Masked(pre.heap, InRaster(1), q)
          /\ InRaster(1).TheMask # 0
          /\ NoValueClasses(InBand(1, 1)[q[1]][q[2]]) # {}
          /\ Masked(heap, OutRaster(1), p)
          /\ Masked(heap, OutRaster(1), q)

(***************************************************************************)
(* Alignment and Math: what is read from the inputs as they were.          *)
(***************************************************************************)
BoundsBefore(k) ==
    <<InRaster(k).XMin,
      InRaster(k).YMax + (InRaster(k).HeightInPixels * InRaster(k).PixelHeight),
      InRaster(k).XMin + (InRaster(k).WidthInPixels * InRaster(k).PixelWidth),
      InRaster(k).YMax>>

Intersection ==
    <<Max(BoundsBefore(1)[1], BoundsBefore(2)[1]), Max(BoundsBefore(1)[2], BoundsBefore(2)[2]),
      Min(BoundsBefore(1)[3], BoundsBefore(2)[3]), Min(BoundsBefore(1)[4], BoundsBefore(2)[4])>>

EmptyIntersection ==
    Intersection[3] <= Intersection[1] \/ Intersection[4] <= Intersection[2]

Aligned == ret.op = "ResampleToMatch" /\ ret.status = "ok"

\* The input raster k is as it was: the same properties, the same arrays,
\* and the same values in them.
InputUnchanged(k) ==
    /\ rasters[ret.ins[k]] = InRaster(k)
    /\ \A a \in ArraysOf(InRaster(k)) : heap[a] = pre.heap[a]

\* Every pixel size the code computed is the exact quotient.
ExactPixelSizes ==
    Aligned =>
        \A k \in 1..2 :
            OutRaster(k).PixelHeight * InRaster(k).PixelWidth
                = InRaster(k).PixelHeight * OutRaster(k).PixelWidth

(***************************************************************************)
(* C4. Math never mutates its inputs: after a Math call, with a raster or  *)
(* with a scalar operand, self and the operand raster have the band        *)
(* values, mask, dimensions and georeference they had before the call.     *)
(* Violated: with equal bounds and different pixel sizes the coarser input *)
(* itself is given to Scale, which zeroes its pixels below 1e-8 in place.  *)
(***************************************************************************)
C4_MathLeavesInputs ==
    ret.op = "Math" => \A k \in 1..Len(ret.ins) : InputUnchanged(k)

(***************************************************************************)
(* C5. ResampleToMatch with different horizontal pixel sizes leaves the    *)
(* raster with the larger pixel size as it is and resamples the other, so  *)
(* that both returned rasters have the larger pixel size; with equal pixel *)
(* sizes neither is resampled.                                             *)
(* Violated: the code resamples the coarser raster to the finer size.      *)
(***************************************************************************)
C5_CoarserResolutionKept ==
    Aligned =>
        LET coarser == Max(InRaster(1).PixelWidth, InRaster(2).PixelWidth)
        IN  \A k \in 1..2 : OutRaster(k).PixelWidth = coarser

(***************************************************************************)
(* C6. The two rasters returned by ResampleToMatch have the same width,    *)
(* height, origin (XMin, YMax), pixel width and pixel height.              *)
(* Violated: only the horizontal pixel sizes are compared, and each crop   *)
(* is snapped to the pixels of its own raster.                             *)
(***************************************************************************)
SameGrid(R1, R2) ==
    /\ R1.WidthInPixels = R2.WidthInPixels
    /\ R1.HeightInPixels = R2.HeightInPixels
    /\ R1.XMin = R2.XMin
    /\ R1.YMax = R2.YMax
    /\ R1.PixelWidth = R2.PixelWidth
    /\ R1.PixelHeight = R2.PixelHeight

C6_ResultsShareGrid == Aligned => SameGrid(OutRaster(1), OutRaster(2))

IsScenarioD(R) ==
    /\ R.WidthInPixels = 2 /\ R.HeightInPixels = 2 /\ R.XMin = 0 /\ R.YMax = 0
    /\ R.PixelWidth = 10 /\ R.PixelHeight = -10
IsScenarioE(R) ==
    /\ R.WidthInPixels = 2 /\ R.HeightInPixels = 2 /\ R.XMin = 10 /\ R.YMax = -10
    /\ R.PixelWidth = 10 /\ R.PixelHeight = -10

C9_AlignmentIdempotent ==
    ret.op = "ResampleToMatchAgain" =>
        /\ ret.status = "ok"
        /\ \A k \in 1..2 :
              /\ SameGrid(OutRaster(k), InRaster(k))
              /\ \A b \in 1..InRaster(k).NumBands : OutBand(k, b) = InBand(k, b)

(***************************************************************************)
(* C10. Clone keeps the mask, without aliasing: for a raster with a mask,  *)
(* with or without a NoDataValue, the clone has a mask equal element by    *)
(* element that is another array, and likewise for every band, so that a   *)
(* later write to an array of one is not seen in the other.                *)
(* Violated: Clone copies the mask only when NoDataValue is not None.      *)
(***************************************************************************)
C10_CloneKeepsMask ==
    /\ (ret.op = "Clone" /\ InRaster(1).TheMask # 0) =>
          /\ OutRaster(1).TheMask # 0
          /\ OutRaster(1).TheMask # InRaster(1).TheMask
          /\ heap[OutRaster(1).TheMask] = pre.heap[InRaster(1).TheMask]
          /\ \A b \in 1..InRaster(1).NumBands :
                /\ OutRaster(1).TheBands[b] # InRaster(1).TheBands[b]
                /\ OutBand(1, b) = InBand(1, b)
    /\ ret.op = "Write" =>
          \A id \in SeqRange(ret.ins) \ {ret.out[1]} :
          \A a \in ArraysOf(rasters[id]) : heap[a] = pre.heap[a]

(***************************************************************************)
(* Two rasters with one or two bands each, one row of one or two pixels,   *)
(* the same origin and pixel size, both loaded from files or both built in *)
(* memory; the first is of type Int16 or Float32.  They are compared, or   *)
(* subtracted, and the first is compared with a scalar.                    *)
(***************************************************************************)
GDALFileOf(bands, type) ==
    [present |-> TRUE, RasterXSize |-> Cols(bands[1]), RasterYSize |-> Rows(bands[1]),
     RasterCount |-> Len(bands), XMin |-> 0, YMax |-> 0, PixelWidth |-> 10,
     PixelHeight |-> -10, NoDataValue |-> None, DataType |-> type, Bands |-> bands]

InitMath ==
    \E n1 \in 1..2, n2 \in 1..2, w1 \in 1..2, w2 \in 1..2 :
    \E bands1 \in [1..n1 -> MatricesOver(1, w1, 1..MaxVal)] :
    \E band2 \in MatricesOver(1, w2, 1..MaxVal) :
    \E type \in {GDT_Int16, GDT_Float32}, fromFile \in BOOLEAN :
        LET one == AddRaster(<<>>, <<>>, GDALFileOf(bands1, type), fromFile)
            two == AddRaster(one.heap, one.rasters,
                             GDALFileOf([b \in 1..n2 |-> band2], GDT_Int16), fromFile)
        IN  /\ heap = two.heap
            /\ rasters = two.rasters
            /\ ret = NoCall
            /\ pre = [heap |-> heap, rasters |-> rasters]

ComparisonOperations ==
    {SPAMATH_EQUAL, SPAMATH_NOT_EQUAL, SPAMATH_LESS, SPAMATH_LESS_OR_EQUAL,
     SPAMATH_GREATER, SPAMATH_GREATER_OR_EQUAL}

\* Equal, NotEqual, LessThan, ..., Subtract with a raster
RasterCompareCall(id1, id2) ==
    /\ ret.op = "none"
    /\ \E Operation \in ComparisonOperations \cup {SPAMATH_SUBTRACT} :
          LET Returned(c) == Finish("Math", <<id1, id2>>, <<Operation>>, c, <<c.res>>)
          IN  Returned(RasterMath(Begin(heap, rasters), id1, Operation, id2))

\* Equal, NotEqual, LessThan, ... with a number
ScalarCompareCall(id) ==
    /\ ret.op = "none"
    /\ \E Operation \in ComparisonOperations, Input2 \in {2} :
          LET Returned(c) == Finish("Math", <<id>>, <<Operation, Input2>>, c, <<c.res>>)
          IN  Returned(ScalarOperandMath(Begin(heap, rasters), id, Operation, Input2))

NextMath == RasterCompareCall(1, 2) \/ ScalarCompareCall(1)

SpecMath == InitMath /\ [][NextMath]_vars

(***************************************************************************)
(* SpaResample.ExtractByPixels.  A numpy slice a[r0:r1, c0:c1] never       *)
(* raises: a negative bound counts from the end, every bound is clipped to *)
(* the array, and a stop at or before the start gives an empty array.  The *)
(* slice is a view of the input's memory; the model holds its content as   *)
(* it is when the call returns (no array is written after an extraction).  *)
(***************************************************************************)
NumpyIndex(i, n) == IF i < 0 THEN Max(i + n, 0) ELSE Min(i, n)

\* A variant that counts rows and columns from 1.
NumpySliceFromOne(m, r0, r1, c0, c1) ==
    LET rs == NumpyIndex(r0 + 1, Rows(m))
        cs == NumpyIndex(c0 + 1, Cols(m))
    IN  [r \in 1..(NumpyIndex(r1 + 1, Rows(m)) - rs) |->
            [c \in 1..(NumpyIndex(c1 + 1, Cols(m)) - cs) |-> m[rs + r][cs + c]]]

\* m[r0:r1, c0:c1], the bounds counted from 0
NumpySlice(m, r0, r1, c0, c1) ==
    LET rs == NumpyIndex(r0, Rows(m))
        cs == NumpyIndex(c0, Cols(m))
    IN  [r \in 1..(NumpyIndex(r1, Rows(m)) - rs) |->
            [c \in 1..(NumpyIndex(c1, Cols(m)) - cs) |-> m[rs + r][cs + c]]]

ExtractByPixels(ctx, id, StartColumn, StartRow, EndColumn, EndRow) ==
    LET R == ctx.rasters[id]
        OutputBands == [b \in 1..R.NumBands |->
                           NumpySlice(ctx.heap[R.TheBands[b]], StartRow, EndRow + 1,
                                      StartColumn, EndColumn + 1)]
    IN  Return(ctx, ctx.heap \o OutputBands,
               [CopyPropertiesButNotData(R) EXCEPT
                  !.HeightInPixels = EndRow - StartRow + 1,
                  !.WidthInPixels = EndColumn - StartColumn + 1,
                  !.XMin = R.XMin + (StartColumn * R.PixelWidth),
                  !.YMax = R.YMax + (StartRow * R.PixelHeight),
                  !.TheBands = [b \in 1..R.NumBands |-> Len(ctx.heap) + b]])

(***************************************************************************)
(* A raster of up to 2 rows and 3 columns, with one or two bands, every    *)
(* pixel of another value, and a window taken from it; the window's        *)
(* indices run from -1 to the raster's largest size.                       *)
(***************************************************************************)
NumberedBand(b, h, w) == [r \in 1..h |-> [c \in 1..w |-> (100 * b) + (10 * r) + c]]
WindowRows == -1..2
WindowColumns == -1..3

InitExtract ==
    \E h \in 1..2, w \in 1..3, n \in 1..2, pw \in PixelSizes :
    \E ph \in PixelHeights(pw) :
        /\ heap = [b \in 1..n |-> NumberedBand(b, h, w)]
        /\ rasters = <<NewRaster(w, h, [b \in 1..n |-> b], 0, None, 5, -20, pw, ph,
                                 NoGDALDataset)>>
        /\ ret = NoCall
        /\ pre = [heap |-> heap, rasters |-> rasters]

ExtractByPixelsCall(id) ==
    /\ ret.op = "none"
    /\ \E StartColumn \in WindowColumns, EndColumn \in WindowColumns :
       \E StartRow \in WindowRows, EndRow \in WindowRows :
          LET Returned(c) ==
                  Finish("ExtractByPixels", <<id>>,
                         <<StartColumn, StartRow, EndColumn, EndRow>>, c, <<c.res>>)
          IN  Returned(ExtractByPixels(Begin(heap, rasters), id,
                                       StartColumn, StartRow, EndColumn, EndRow))

NextExtract == ExtractByPixelsCall(1)

SpecExtract == InitExtract /\ [][NextExtract]_vars

(***************************************************************************)
(* Pixel and reference coordinates.  Resolution is (PixelWidth,            *)
(* PixelHeight), the second negative.  Python's a//b is the floor of the   *)
(* quotient, also for a negative b.                                        *)
(***************************************************************************)
PythonFloorDiv(a, b) == IF b > 0 THEN a \div b ELSE (-a) \div (-b)

GetRefXFromPixelX(R, PixelX) == R.XMin + (PixelX * R.PixelWidth)
GetRefYFromPixelY(R, PixelY) == R.YMax - (PixelY * R.PixelHeight)
GetPixelXFromRefX(R, RefX) == 0 + PythonFloorDiv(RefX - R.XMin, R.PixelWidth)
GetPixelYFromRefY(R, RefY) == 0 - PythonFloorDiv(R.YMax - RefY, R.PixelHeight)

(***************************************************************************)
(* A raster of 1 or 2 rows and columns with its origin at (5,-20), asked   *)
(* for the pixel of a coordinate inside it, for the coordinate of a pixel  *)
(* index, and for the pixel of the coordinate of a pixel index.  For these *)
(* calls ret.params is the argument and ret.out the number returned.       *)
(***************************************************************************)
PixelIndexes == -1..3

InitGeoref ==
    \E h \in 1..2, w \in 1..2, pw \in PixelSizes :
    \E ph \in PixelHeights(pw) :
        /\ heap = <<ConstantBand(h, w, 1)>>
        /\ rasters = <<NewRaster(w, h, <<1>>, 0, None, 5, -20, pw, ph, NoGDALDataset)>>
        /\ ret = NoCall
        /\ pre = [heap |-> heap, rasters |-> rasters]

Answer(op, argument, result) ==
    /\ ret' = [op |-> op, status |-> "ok", ins |-> <<1>>, out |-> <<result>>,
               params |-> <<argument>>, crops |-> <<>>]
    /\ pre' = [heap |-> heap, rasters |-> rasters]
    /\ UNCHANGED <<heap, rasters>>

GetPixelXFromRefXCall ==
    /\ ret.op = "none"
    /\ \E RefX \in rasters[1].XMin ..
                   (rasters[1].XMin + (rasters[1].WidthInPixels * rasters[1].PixelWidth) - 1) :
          Answer("GetPixelXFromRefX", RefX, GetPixelXFromRefX(rasters[1], RefX))

GetPixelYFromRefYCall ==
    /\ ret.op = "none"
    /\ \E RefY \in (rasters[1].YMax + (rasters[1].HeightInPixels * rasters[1].PixelHeight) + 1)
                   .. rasters[1].YMax :
          Answer("GetPixelYFromRefY", RefY, GetPixelYFromRefY(rasters[1], RefY))

GetRefXFromPixelXCall ==
    /\ ret.op = "none"
    /\ \E PixelX \in PixelIndexes :
          Answer("GetRefXFromPixelX", PixelX, GetRefXFromPixelX(rasters[1], PixelX))

GetRefYFromPixelYCall ==
    /\ ret.op = "none"
    /\ \E PixelY \in PixelIndexes :
          Answer("GetRefYFromPixelY", PixelY, GetRefYFromPixelY(rasters[1], PixelY))

\* GetPixelXFromRefX(GetRefXFromPixelX(PixelX))
PixelXRoundTripCall ==
    /\ ret.op = "none"
    /\ \E PixelX \in PixelIndexes :
          Answer("PixelXRoundTrip", PixelX,
                 GetPixelXFromRefX(rasters[1], GetRefXFromPixelX(rasters[1], PixelX)))

\* GetPixelYFromRefY(GetRefYFromPixelY(PixelY))
PixelYRoundTripCall ==
    /\ ret.op = "none"
    /\ \E PixelY \in PixelIndexes :
          Answer("PixelYRoundTrip", PixelY,
                 GetPixelYFromRefY(rasters[1], GetRefYFromPixelY(rasters[1], PixelY)))

NextGeoref ==
    \/ GetPixelXFromRefXCall
    \/ GetPixelYFromRefYCall
    \/ GetRefXFromPixelXCall
    \/ GetRefYFromPixelYCall
    \/ PixelXRoundTripCall
    \/ PixelYRoundTripCall

SpecGeoref == InitGeoref /\ [][NextGeoref]_vars

(***************************************************************************)
(* SetMask, and Save followed by Load of the file written.  A mask given   *)
(* by the caller is an array of the caller's, <<>> when it is None.        *)
(***************************************************************************)
\* numpy.where(self.TheMask, NewValue, TheBand); a mask of None is false
WhereMasked(h, mask, value, TheBand) ==
    IF mask # 0 THEN NumpyWhere(h[mask], value, TheBand) ELSE TheBand

\* A variant that puts the new mask in place before the bands are filled.
SetMaskSwapFirst(h, R, TheMask, NewValue) ==
    LET n == Len(R.TheBands)
        fill == NewValue # None
        h1 == IF TheMask = <<>> THEN h ELSE Append(h, TheMask)
        mask == IF TheMask = <<>> THEN 0 ELSE Len(h1)
        NewBands == IF fill THEN [b \in 1..n |-> WhereMasked(h1, mask, NewValue,
                                                             h1[R.TheBands[b]])]
                    ELSE <<>>
    IN  [heap |-> h1 \o NewBands,
         raster |-> [(IF fill THEN SetBands(R, [b \in 1..n |-> Len(h1) + b]) ELSE R)
                        EXCEPT !.TheMask = mask]]

SetMask(h, R, TheMask, NewValue) ==
    LET n == Len(R.TheBands)
        fill == NewValue # None
        NewBands == IF fill THEN [b \in 1..n |-> WhereMasked(h, R.TheMask, NewValue,
                                                             h[R.TheBands[b]])]
                    ELSE <<>>
        h1 == h \o NewBands
    IN  [heap |-> IF TheMask = <<>> THEN h1 ELSE Append(h1, TheMask),
         raster |-> [(IF fill THEN SetBands(R, [b \in 1..n |-> Len(h) + b]) ELSE R)
                        EXCEPT !.TheMask = IF TheMask = <<>> THEN 0 ELSE Len(h1) + 1]]

\* GetGDALDataset2(TheFilePath): the dataset written to the file.  A band
\* gets the NoDataValue, and the NoDataValue where the mask is set, only
\* when the raster has a NoDataValue.
GetGDALDataset2(h, R) ==
    [present |-> TRUE, RasterXSize |-> R.WidthInPixels, RasterYSize |-> R.HeightInPixels,
     RasterCount |-> R.NumBands, XMin |-> R.XMin, YMax |-> R.YMax,
     PixelWidth |-> R.PixelWidth, PixelHeight |-> R.PixelHeight,
     NoDataValue |-> IF R.NumBands > 0 THEN R.NoDataValue ELSE None,
     DataType |-> R.GDALDataType,
     Bands |-> [b \in 1..R.NumBands |->
                  IF R.NoDataValue # None
                  THEN WhereMasked(h, R.TheMask, R.NoDataValue, h[R.TheBands[b]])
                  ELSE h[R.TheBands[b]]]]

\* Save(path), then Load(path) into a new raster
SaveLoad(h, R) == Load(h, GetGDALDataset2(h, R))

(***************************************************************************)
(* A raster in memory with one row, one or two bands, with or without a    *)
(* mask, with no NoDataValue or the NoDataValue 0 or 9.  A mask is set,    *)
(* with or without a fill value; the raster is saved and loaded again.     *)
(***************************************************************************)
InitMask ==
    \E shape \in Shapes :
    \E bands \in [1..shape[1] -> MatricesOver(1, shape[2], 1..MaxVal)] :
    \E mask \in {<<>>} \cup MatricesOver(1, shape[2], {0, 1}) :
    \E nodata \in {None, 0, 9} :
        /\ heap = IF mask = <<>> THEN bands ELSE Append(bands, mask)
        /\ rasters = <<NewRaster(shape[2], 1, [b \in 1..shape[1] |-> b],
                                 IF mask = <<>> THEN 0 ELSE shape[1] + 1,
                                 nodata, 0, 0, 10, -10, NoGDALDataset)>>
        /\ ret = NoCall
        /\ pre = [heap |-> heap, rasters |-> rasters]

\* SetMask changes the raster it is called on
SetMaskCall(id) ==
    /\ ret.op = "none"
    /\ \E TheMask \in {<<>>} \cup MatricesOver(1, rasters[id].WidthInPixels, {0, 1}) :
       \E NewValue \in {None, 0, 7} :
          LET Returned(sm) ==
                  /\ heap' = sm.heap
                  /\ rasters' = [rasters EXCEPT ![id] = sm.raster]
                  /\ ret' = [op |-> "SetMask", status |-> "ok", ins |-> <<id>>,
                             out |-> <<id>>, params |-> <<TheMask, NewValue>>,
                             crops |-> <<>>]
                  /\ pre' = [heap |-> heap, rasters |-> rasters]
          IN  Returned(SetMask(heap, rasters[id], TheMask, NewValue))

SaveLoadCall(id) ==
    /\ ret.op \in {"none", "SetMask"}
    /\ LET Returned(ld) == Finish("SaveLoad", <<id>>, <<>>,
                                  Return(Begin(heap, rasters), ld.heap, ld.raster),
                                  <<Len(rasters) + 1>>)
       IN  Returned(SaveLoad(heap, rasters[id]))

NextMask == SetMaskCall(1) \/ SaveLoadCall(1)

SpecMask == InitMask /\ [][NextMask]_vars

(***************************************************************************)
(* The one-line functions: Add(Input1, Input2), ..., AbsoluteValue(Input1).*)
(* An argument is a raster (kind "raster", at: its index in rasters) or a  *)
(* number (kind "number", at: the number).                                 *)
(***************************************************************************)
RasterArgument(id) == [kind |-> "raster", at |-> id]
NumberArgument(v) == [kind |-> "number", at |-> v]

\* The functions that begin with
\*   if isinstance(Input1,(int,float)): Input1, Input2 = Input2, Input1
SwappingFunctions ==
    {"Add", "Subtract", "Multiply", "Divide", "Equal", "NotEqual", "LessThan",
     "GreaterThan", "LessThanOrEqual", "GreaterThanOrEqual", "Maximum", "Minimum",
     "And", "Or"}

\* The functions of one argument: Input1.Math(Operation, 0)
UnaryFunctions ==
    {"Not", "RoundInteger", "RoundFix", "RoundFloor", "RoundCeiling", "Truncate",
     "NaturalLog", "Log", "Exponential", "Square", "SquareRoot", "AbsoluteValue"}

\* Round(Input1, Precision) and Power(Input1, Power)
SecondParameterFunctions == {"Round", "Power"}

\* The operation each function hands to Math
OperationOf(name) ==
    CASE name = "Add" -> SPAMATH_ADD
      [] name = "Subtract" -> SPAMATH_SUBTRACT
      [] name = "Multiply" -> SPAMATH_MULTIPLY
      [] name = "Divide" -> SPAMATH_DIVIDE
      [] name = "Equal" -> SPAMATH_EQUAL
      [] name = "NotEqual" -> SPAMATH_NOT_EQUAL
      [] name = "LessThan" -> SPAMATH_LESS
      [] name = "GreaterThan" -> SPAMATH_GREATER
      [] name = "LessThanOrEqual" -> SPAMATH_LESS_OR_EQUAL
      [] name = "GreaterThanOrEqual" -> SPAMATH_GREATER_OR_EQUAL
      [] name = "Maximum" -> SPAMATH_MAX
      [] name = "Minimum" -> SPAMATH_MIN
      [] name = "And" -> SPAMATH_AND
      [] name = "Or" -> SPAMATH_OR
      [] name = "Not" -> SPAMATH_NOT
      [] name = "Round" -> SPAMATH_ROUND
      [] name = "RoundInteger" -> SPAMATH_ROUND_INTEGER
      [] name = "RoundFix" -> SPAMATH_ROUND_FIX
      [] name = "RoundFloor" -> SPAMATH_ROUND_FLOOR
      [] name = "RoundCeiling" -> SPAMATH_ROUND_CEIL
      [] name = "Truncate" -> SPAMATH_ROUND_TRUNC
      [] name = "NaturalLog" -> SPAMATH_NATURAL_LOG
      [] name = "Log" -> SPAMATH_NATURAL_LOG
      [] name = "Exponential" -> SPAMATH_EXPONENT
      [] name = "Power" -> SPAMATH_POWER
      [] name = "Square" -> SPAMATH_SQUARE
      [] name = "SquareRoot" -> SPAMATH_SQUARE_ROOT
      [] name = "AbsoluteValue" -> SPAMATH_ABSOLUTE

\* Whether the function exchanges its two arguments
Swaps(name, Input1) == name \in SwappingFunctions /\ Input1.kind = "number"

\* The object Math is called on, and the Input2 Math is given
MathReceiver(name, Input1, Input2) == IF Swaps(name, Input1) THEN Input2 ELSE Input1
MathInput2(name, Input1, Input2) ==
    IF name \in UnaryFunctions THEN NumberArgument(0)
    ELSE IF Swaps(name, Input1) THEN Input1 ELSE Input2

\* Input1.Math(Operation, Input2): a number has no method Math;
\* isinstance(Input2, numbers.Number) chooses the branch.
Math(ctx, Input1, Operation, Input2) ==
    IF Input1.kind = "number" THEN Raise(ctx, "AttributeError")
    ELSE IF Input2.kind = "number"
         THEN ScalarOperandMath(ctx, Input1.at, Operation, Input2.at)
         ELSE RasterMath(ctx, Input1.at, Operation, Input2.at)

OneLine(ctx, name, Input1, Input2) ==
    Math(ctx, MathReceiver(name, Input1, Input2), OperationOf(name),
         MathInput2(name, Input1, Input2))

(***************************************************************************)
(* Two rasters in memory on the same grid, one row of one or two pixels,   *)
(* one band each, each with or without a mask (and then the NoDataValue    *)
(* 9); a pixel of the first may be 10.  One one-line function is called.   *)
(***************************************************************************)
MaskedRaster(w, band, mask) ==
    NewRaster(w, 1, <<band>>, mask, IF mask = 0 THEN None ELSE 9, 0, 0, 10, -10,
              NoGDALDataset)

InitOneLine ==
    \E w \in 1..2 :
    \E band1 \in MatricesOver(1, w, (1..MaxVal) \cup {10}) :
    \E band2 \in MatricesOver(1, w, 1..MaxVal) :
    \E mask1 \in {<<>>} \cup MatricesOver(1, w, {0, 1}) :
    \E mask2 \in {<<>>} \cup MatricesOver(1, w, {0, 1}) :
        LET arrays == <<band1, band2>> \o (IF mask1 = <<>> THEN <<>> ELSE <<mask1>>)
                                       \o (IF mask2 = <<>> THEN <<>> ELSE <<mask2>>)
        IN  /\ heap = arrays
            /\ rasters = <<MaskedRaster(w, 1, IF mask1 = <<>> THEN 0 ELSE 3),
                           MaskedRaster(w, 2, IF mask2 = <<>> THEN 0 ELSE Len(arrays))>>
            /\ ret = NoCall
            /\ pre = [heap |-> heap, rasters |-> rasters]

\* ret.ins: the rasters among Math's receiver and Input2, in that order;
\* ret.params: the two arguments as given, and the operation handed to Math
RasterIds(arguments) ==
    LET rs == SelectSeq(arguments, LAMBDA a : a.kind = "raster")
    IN  [i \in 1..Len(rs) |-> rs[i].at]

OneLineFinish(name, Input1, Input2, ctx) ==
    Finish(name,
           RasterIds(<<MathReceiver(name, Input1, Input2), MathInput2(name, Input1, Input2)>>),
           <<Input1, Input2, OperationOf(name)>>, ctx, <<ctx.res>>)

\* Add(Input1, Input2), ..., Or(Input1, Input2), Round and Power
TwoArgumentCall(id1, id2) ==
    /\ ret.op = "none"
    /\ \E name \in SwappingFunctions \cup SecondParameterFunctions :
       \E Input1 \in {RasterArgument(id1), NumberArgument(2)} :
       \E Input2 \in {RasterArgument(id2), NumberArgument(2)} :
          OneLineFinish(name, Input1, Input2,
                        OneLine(Begin(heap, rasters), name, Input1, Input2))

\* Not(Input1), ..., AbsoluteValue(Input1)
OneArgumentCall(id) ==
    /\ ret.op = "none"
    /\ \E name \in UnaryFunctions :
          OneLineFinish(name, RasterArgument(id), NumberArgument(0),
                        OneLine(Begin(heap, rasters), name, RasterArgument(id),
                                NumberArgument(0)))

NextOneLine == TwoArgumentCall(1, 2) \/ OneArgumentCall(1)

SpecOneLine == InitOneLine /\ [][NextOneLine]_vars

(***************************************************************************)
(* Scale of a raster in memory whose pixels are negative, zero or          *)
(* positive, by a zoom factor of 1 or 2.                                   *)
(***************************************************************************)
ZoomFactors == {<<1, 1>>, <<2, 1>>}      \* <<numerator, denominator>>

InitScale ==
    \E h \in 1..2 :
    \E band \in MatricesOver(h, 2, (0 - MaxVal)..MaxVal) :
        /\ heap = <<band>>
        /\ rasters = <<NewRaster(2, h, <<1>>, 0, None, 0, 0, 10, -10, NoGDALDataset)>>
        /\ ret = NoCall
        /\ pre = [heap |-> heap, rasters |-> rasters]

ScaleCall(id) ==
    /\ ret.op = "none"
    /\ \E ZoomFactor \in ZoomFactors :
          LET Returned(c) == Finish("Scale", <<id>>, ZoomFactor, c, <<c.res>>)
          IN  Returned(Scale(Begin(heap, rasters), id, ZoomFactor[1], ZoomFactor[2]))

NextScale == ScaleCall(1)

SpecScale == InitScale /\ [][NextScale]_vars

(***************************************************************************)
(* SpaResample.NumpyCrop: the pixels of the corners of the bounds          *)
(* (XMin, YMin, XMax, YMax), handed to ExtractByPixels as the first and    *)
(* the last column and row.                                                *)
(***************************************************************************)
NumpyCrop(ctx, id, Bounds) ==
    LET Extract(UpperLeftPixelX, UpperLeftPixelY, LowerRightPixelX, LowerRightPixelY) ==
            ExtractByPixels(ctx, id, UpperLeftPixelX, UpperLeftPixelY,
                            LowerRightPixelX, LowerRightPixelY)
    IN  Extract(GetPixelXFromRefX(ctx.rasters[id], Bounds[1]),
                GetPixelYFromRefY(ctx.rasters[id], Bounds[4]),
                GetPixelXFromRefX(ctx.rasters[id], Bounds[3]),
                GetPixelYFromRefY(ctx.rasters[id], Bounds[2]))

(***************************************************************************)
(* A raster in memory of up to 2 rows and 2 columns with origin (0, 0) and *)
(* pixels of 10 by 10, every pixel of another value, with or without a     *)
(* mask (and then the NoDataValue 9).  It is cropped to bounds whose       *)
(* coordinates are multiples of 5 inside the raster, or a window of pixels *)
(* is extracted from it.                                                   *)
(***************************************************************************)
InitCrop ==
    \E h \in 1..2, w \in 1..2 :
    \E mask \in {<<>>} \cup MatricesOver(h, w, {0, 1}) :
        /\ heap = IF mask = <<>> THEN <<NumberedBand(1, h, w)>>
                  ELSE <<NumberedBand(1, h, w), mask>>
        /\ rasters = <<NewRaster(w, h, <<1>>, IF mask = <<>> THEN 0 ELSE 2,
                                 IF mask = <<>> THEN None ELSE 9, 0, 0, 10, -10,
                                 NoGDALDataset)>>
        /\ ret = NoCall
        /\ pre = [heap |-> heap, rasters |-> rasters]

\* The coordinates 0, 5, ..., 10*n
CropCoordinates(n) == {5 * k : k \in 0..(2 * n)}

NumpyCropCall(id) ==
    /\ ret.op = "none"
    /\ \E XMin \in CropCoordinates(rasters[id].WidthInPixels) :
       \E XMax \in CropCoordinates(rasters[id].WidthInPixels) :
       \E YMin \in CropCoordinates(rasters[id].HeightInPixels) :
       \E YMax \in CropCoordinates(rasters[id].HeightInPixels) :
          /\ XMin < XMax
          /\ YMin < YMax
          /\ LET Returned(c) ==
                     Finish("NumpyCrop", <<id>>, <<XMin, 0 - YMax, XMax, 0 - YMin>>, c,
                            <<c.res>>)
             IN  Returned(NumpyCrop(Begin(heap, rasters), id,
                                    <<XMin, 0 - YMax, XMax, 0 - YMin>>))

NextCrop == NumpyCropCall(1) \/ ExtractByPixelsCall(1)

SpecCrop == InitCrop /\ [][NextCrop]_vars

(***************************************************************************)
(* C11. Math with a scalar operand returns a raster whose mask is equal,   *)
(* element by element, to the mask the input raster has, for every         *)
(* operation and for every input with a mask, its NoDataValue set or None. *)
(* Violated: the result is a Clone of the input, and Clone drops the mask  *)
(* of a raster whose NoDataValue is None (C10).                            *)
(***************************************************************************)
ScalarMathReturned == ret.op = "Math" /\ Len(ret.ins) = 1 /\ ret.status = "ok"

C11_ScalarMathKeepsMask ==
    (ScalarMathReturned /\ InRaster(1).TheMask # 0) =>
        /\ OutRaster(1).TheMask # 0
        /\ heap[OutRaster(1).TheMask] = pre.heap[InRaster(1).TheMask]

(***************************************************************************)
(* C12. Math with a raster operand whose number of bands differs from that *)
(* of self raises the band-count error, before anything is cropped or      *)
(* resampled (no crop is asked for, no array and no raster is made or      *)
(* changed) and without a result.                                          *)
(***************************************************************************)
C12_BandCountMismatchFirst ==
    (ret.op = "Math" /\ Len(ret.ins) = 2
        /\ InRaster(1).NumBands # InRaster(2).NumBands) =>
        /\ ret.status = "BandCountMismatch"
        /\ ret.out = <<>>
        /\ ret.crops = <<>>
        /\ heap = pre.heap
        /\ rasters = pre.rasters

\* Two rasters from files, with one and two bands and different bounds
\* (which rasters with equal band counts would be cropped for).
C12_Witness ==
    /\ ret.op = "Math" /\ Len(ret.ins) = 2
    /\ InRaster(1).NumBands = 1 /\ InRaster(2).NumBands = 2
    /\ InRaster(1).GDALDataset.present /\ InRaster(2).GDALDataset.present
    /\ InRaster(1).WidthInPixels # InRaster(2).WidthInPixels
    /\ ret.status = "BandCountMismatch"

(***************************************************************************)
(* C13. For each of the six comparisons, with a raster or a scalar operand *)
(* and an input of either type, the result has the Byte type and every     *)
(* pixel of every band is 1 where the comparison of the input pixel with   *)
(* the operand holds and 0 where it does not.  With a raster operand the   *)
(* pixels compared are those of the common extent (the rasters of the      *)
(* model have the same origin and pixel size).                             *)
(***************************************************************************)
Holds(Operation, a, b) ==
    CASE Operation = SPAMATH_EQUAL -> a = b
      [] Operation = SPAMATH_NOT_EQUAL -> a # b
      [] Operation = SPAMATH_LESS -> a < b
      [] Operation = SPAMATH_LESS_OR_EQUAL -> a <= b
      [] Operation = SPAMATH_GREATER -> a > b
      [] Operation = SPAMATH_GREATER_OR_EQUAL -> a >= b

Compared == ret.op = "Math" /\ ret.status = "ok" /\ ret.params[1] \in ComparisonOperations

C13_ComparisonsGiveBytes ==
    Compared =>
        /\ OutRaster(1).GDALDataType = GDT_Byte
        /\ Len(OutRaster(1).TheBands) = InRaster(1).NumBands
        /\ \A b \in 1..InRaster(1).NumBands :
              /\ Rows(OutBand(1, b)) = 1
              /\ Cols(OutBand(1, b)) =
                    IF Len(ret.ins) = 2
                    THEN Min(InRaster(1).WidthInPixels, InRaster(2).WidthInPixels)
                    ELSE InRaster(1).WidthInPixels
              /\ \A p \in PixelsOf(OutBand(1, b)) :
                    LET a == InBand(1, b)[p[1]][p[2]]
                        operand == IF Len(ret.ins) = 2 THEN InBand(2, b)[p[1]][p[2]]
                                   ELSE ret.params[2]
                    IN  OutBand(1, b)[p[1]][p[2]] =
                            (IF Holds(ret.params[1], a, operand) THEN 1 ELSE 0)

\* A Float32 raster of two bands was compared with a raster of another
\* width: the result has a pixel that is 1 and a pixel that is 0.
C13_Witness ==
    /\ Compared /\ Len(ret.ins) = 2
    /\ InRaster(1).GDALDataType = GDT_Float32
    /\ InRaster(1).NumBands = 2
    /\ InRaster(1).WidthInPixels # InRaster(2).WidthInPixels
    /\ OutRaster(1).GDALDataType = GDT_Byte
    /\ \E b1 \in 1..2, b2 \in 1..2 : OutBand(1, b1)[1][1] = 1 /\ OutBand(1, b2)[1][1] = 0

\* The first raster was compared with the number 2: a pixel is 1, another 0.
C13_ScalarWitness ==
    /\ Compared /\ Len(ret.ins) = 1
    /\ \E p \in PixelsOf(OutBand(1, 1)), q \in PixelsOf(OutBand(1, 1)) :
          OutBand(1, 1)[p[1]][p[2]] = 1 /\ OutBand(1, 1)[q[1]][q[2]] = 0

(***************************************************************************)
(* C14. ExtractByPixels(R, startCol, startRow, endCol, endRow) with the    *)
(* window inside R returns a raster of endRow-startRow+1 rows and          *)
(* endCol-startCol+1 columns, whose pixel (r, c), counted from 0, is R's   *)
(* pixel (startRow+r, startCol+c) in every band, whose origin is           *)
(* (XMin + startCol*pixelWidth, YMax + startRow*pixelHeight) and whose     *)
(* pixel size is that of R.                                                *)
(***************************************************************************)
Extracted == ret.op = "ExtractByPixels"
StartColumnOf == ret.params[1]
StartRowOf == ret.params[2]
EndColumnOf == ret.params[3]
EndRowOf == ret.params[4]

WindowInside ==
    /\ 0 <= StartColumnOf /\ StartColumnOf <= EndColumnOf
    /\ EndColumnOf < InRaster(1).WidthInPixels
    /\ 0 <= StartRowOf /\ StartRowOf <= EndRowOf
    /\ EndRowOf < InRaster(1).HeightInPixels

C14_ExtractWindow ==
    (Extracted /\ WindowInside) =>
        /\ ret.status = "ok"
        /\ OutRaster(1).HeightInPixels = EndRowOf - StartRowOf + 1
        /\ OutRaster(1).WidthInPixels = EndColumnOf - StartColumnOf + 1
        /\ OutRaster(1).XMin = InRaster(1).XMin + (StartColumnOf * InRaster(1).PixelWidth)
        /\ OutRaster(1).YMax = InRaster(1).YMax + (StartRowOf * InRaster(1).PixelHeight)
        /\ OutRaster(1).PixelWidth = InRaster(1).PixelWidth
        /\ OutRaster(1).PixelHeight = InRaster(1).PixelHeight
        /\ Len(OutRaster(1).TheBands) = InRaster(1).NumBands
        /\ \A b \in 1..InRaster(1).NumBands :
              /\ Len(OutBand(1, b)) = EndRowOf - StartRowOf + 1
              /\ \A r \in 0..(EndRowOf - StartRowOf) :
                    /\ Len(OutBand(1, b)[r + 1]) = EndColumnOf - StartColumnOf + 1
                    /\ \A c \in 0..(EndColumnOf - StartColumnOf) :
                          OutBand(1, b)[r + 1][c + 1] =
                              InBand(1, b)[StartRowOf + r + 1][StartColumnOf + c + 1]

\* Columns 1 to 2 of row 1 are taken from a raster of 2 rows and 3 columns.
C14_Witness ==
    /\ Extracted /\ ret.status = "ok"
    /\ InRaster(1).HeightInPixels = 2 /\ InRaster(1).WidthInPixels = 3
    /\ ret.params = <<1, 1, 2, 1>>
    /\ OutBand(1, 1) = << <<InBand(1, 1)[2][2], InBand(1, 1)[2][3]>> >>
    /\ OutRaster(1).XMin = 5 + InRaster(1).PixelWidth

(***************************************************************************)
(* C15. ExtractByPixels raises an index error, and returns no raster,      *)
(* whenever the window is not inside the raster: endCol >= width,          *)
(* endRow >= height, a negative index, or an end before its start.         *)
(* Violated: numpy slices clip their bounds and never raise; the call      *)
(* returns a raster whose declared size is not that of its bands.          *)
(***************************************************************************)
C15_WindowOutsideRaises ==
    (Extracted /\ ~WindowInside) => (ret.status # "ok" /\ ret.out = <<>>)

(***************************************************************************)
(* C16. For a reference coordinate inside the raster, GetPixelXFromRefX    *)
(* and GetPixelYFromRefY return the index of the pixel that contains it:   *)
(* pixel column i spans [XMin + i*pixelWidth, XMin + (i+1)*pixelWidth) and *)
(* pixel row j, with the negative pixel height, spans                      *)
(* (YMax + (j+1)*pixelHeight, YMax + j*pixelHeight].                       *)
(* Violated on the Y axis: the floor of a quotient by the negative pixel   *)
(* height, negated, is the quotient rounded UP.                            *)
(***************************************************************************)
ArgumentOf == ret.params[1]
AnswerOf == ret.out[1]

C16_PixelContainsCoordinate ==
    /\ ret.op = "GetPixelXFromRefX" =>
          /\ InRaster(1).XMin + (AnswerOf * InRaster(1).PixelWidth) <= ArgumentOf
          /\ ArgumentOf < InRaster(1).XMin + ((AnswerOf + 1) * InRaster(1).PixelWidth)
    /\ ret.op = "GetPixelYFromRefY" =>
          /\ InRaster(1).YMax + (AnswerOf * InRaster(1).PixelHeight) >= ArgumentOf
          /\ ArgumentOf > InRaster(1).YMax + ((AnswerOf + 1) * InRaster(1).PixelHeight)

(***************************************************************************)
(* C17. Pixel to reference is refX = XMin + pixelX*pixelWidth and          *)
(* refY = YMax + pixelY*pixelHeight, and for every integer pixel index     *)
(* converting to a reference coordinate and back returns the index.        *)
(* Violated on the Y axis: GetRefYFromPixelY subtracts pixelY*pixelHeight, *)
(* and the way back returns -pixelY.                                       *)
(***************************************************************************)
C17_PixelReferenceInverse ==
    /\ ret.op = "GetRefXFromPixelX" =>
          AnswerOf = InRaster(1).XMin + (ArgumentOf * InRaster(1).PixelWidth)
    /\ ret.op = "GetRefYFromPixelY" =>
          AnswerOf = InRaster(1).YMax + (ArgumentOf * InRaster(1).PixelHeight)
    /\ ret.op \in {"PixelXRoundTrip", "PixelYRoundTrip"} => AnswerOf = ArgumentOf

(***************************************************************************)
(* C18. SetMask(mask, fillValue) fills before it swaps: with a fill value, *)
(* every pixel that the mask held BEFORE the call marks invalid is the     *)
(* fill value in every band and every other pixel has the value it had,    *)
(* whatever the new mask; without a fill value the bands are the arrays    *)
(* they were, with the values they had.  Afterwards the mask is the new    *)
(* mask (None when None was given).                                        *)
(***************************************************************************)
MaskSet == ret.op = "SetMask"
NewMaskOf == ret.params[1]
NewValueOf == ret.params[2]

C18_SetMaskFillsThenSwaps ==
    MaskSet =>
        /\ \A b \in 1..InRaster(1).NumBands :
           \A p \in PixelsOf(InBand(1, b)) :
              OutBand(1, b)[p[1]][p[2]] =
                  (IF NewValueOf # None /\ Masked(pre.heap, InRaster(1), p)
                   THEN NewValueOf ELSE InBand(1, b)[p[1]][p[2]])
        /\ NewValueOf = None => OutRaster(1).TheBands = InRaster(1).TheBands
        /\ IF NewMaskOf = <<>> THEN OutRaster(1).TheMask = 0
           ELSE OutRaster(1).TheMask # 0 /\ heap[OutRaster(1).TheMask] = NewMaskOf

\* The old mask marks the first of two pixels and the new mask the second:
\* the first pixel is filled, the second is not.
C18_Witness ==
    /\ MaskSet /\ NewValueOf = 7
    /\ InRaster(1).WidthInPixels = 2 /\ InRaster(1).TheMask # 0
    /\ pre.heap[InRaster(1).TheMask] = << <<1, 0>> >>
    /\ NewMaskOf = << <<0, 1>> >>
    /\ OutBand(1, 1)[1][1] = 7
    /\ OutBand(1, 1)[1][2] = InBand(1, 1)[1][2]
    /\ heap[OutRaster(1).TheMask] = << <<0, 1>> >>

(***************************************************************************)
(* C19. After SetMask with a mask of None the raster's NoDataValue is      *)
(* None.                                                                   *)
(* Violated: SetMask does not assign NoDataValue.                          *)
(***************************************************************************)
C19_NoMaskNoSentinel ==
    (MaskSet /\ NewMaskOf = <<>>) => OutRaster(1).NoDataValue = None

(***************************************************************************)
(* C20. Loading the file written by Save gives a raster with the width,    *)
(* height, band count, origin, pixel size and NoDataValue of the raster    *)
(* saved, that marks invalid exactly the pixels its mask marked invalid,   *)
(* and has its band values at the valid pixels; for every raster, with or  *)
(* without a mask and a NoDataValue.                                       *)
(* Violated: without a NoDataValue the mask is not written, and a          *)
(* NoDataValue of 0 is read back as None.                                  *)
(***************************************************************************)
C20_SaveLoadRoundTrip ==
    ret.op = "SaveLoad" =>
        /\ OutRaster(1).WidthInPixels = InRaster(1).WidthInPixels
        /\ OutRaster(1).HeightInPixels = InRaster(1).HeightInPixels
        /\ OutRaster(1).NumBands = InRaster(1).NumBands
        /\ OutRaster(1).XMin = InRaster(1).XMin
        /\ OutRaster(1).YMax = InRaster(1).YMax
        /\ OutRaster(1).PixelWidth = InRaster(1).PixelWidth
        /\ OutRaster(1).PixelHeight = InRaster(1).PixelHeight
        /\ OutRaster(1).NoDataValue = InRaster(1).NoDataValue
        /\ \A b \in 1..InRaster(1).NumBands :
           \A p \in PixelsOf(InBand(1, b)) :
              /\ Masked(heap, OutRaster(1), p) <=> Masked(pre.heap, InRaster(1), p)
              /\ ~Masked(pre.heap, InRaster(1), p) =>
                    OutBand(1, b)[p[1]][p[2]] = InBand(1, b)[p[1]][p[2]]

(***************************************************************************)
(* C21. Every raster an operation returns holds as many band arrays as its *)
(* NumBands says: a call either returns a raster with all its bands or     *)
(* fails.                                                                  *)
(* Violated: Math with a raster operand has no case for the operations of  *)
(* the scalar branch and returns the clone with an empty list of bands.    *)
(***************************************************************************)
C21_BandCountInvariant ==
    ret.status = "ok" =>
        \A k \in 1..Len(ret.out) : Len(OutRaster(k).TheBands) = OutRaster(k).NumBands

(***************************************************************************)
(* C22. Maximum and Minimum of a raster and a number return a raster in    *)
(* which each pixel is the greater (the lesser) of the input pixel and the *)
(* number.                                                                 *)
(* Violated: the scalar branch of Math has no case for SPAMATH_MAX and     *)
(* SPAMATH_MIN, and the call raises.                                       *)
(***************************************************************************)
GivenInput1 == ret.params[1]
GivenInput2 == ret.params[2]
OperationHanded == ret.params[3]

\* The value an argument has at pixel p: the number, or the pixel of the
\* first band of the raster before the call
ArgumentPixel(argument, p) ==
    IF argument.kind = "number" THEN argument.at
    ELSE pre.heap[pre.rasters[argument.at].TheBands[1]][p[1]][p[2]]

PixelsOfCall == PixelsOf(pre.heap[pre.rasters[1].TheBands[1]])
OneRasterOneNumber == {GivenInput1.kind, GivenInput2.kind} = {"raster", "number"}

C22_ExtremaWithConstant ==
    (ret.op \in {"Maximum", "Minimum"} /\ OneRasterOneNumber) =>
        /\ ret.status = "ok"
        /\ \A p \in PixelsOfCall :
              OutBand(1, 1)[p[1]][p[2]] =
                  (IF ret.op = "Maximum"
                   THEN Max(ArgumentPixel(GivenInput1, p), ArgumentPixel(GivenInput2, p))
                   ELSE Min(ArgumentPixel(GivenInput1, p), ArgumentPixel(GivenInput2, p)))

(***************************************************************************)
(* C23. LessThan, GreaterThan, LessThanOrEqual, GreaterThanOrEqual,        *)
(* Subtract and Divide take Input1 as the left operand and Input2 as the   *)
(* right operand, whichever of the two is a raster: LessThan is 1 exactly  *)
(* where Input1 < Input2, Subtract is Input1 - Input2, and so on.          *)
(* Violated: with a number as Input1 the two are exchanged and the result  *)
(* is that of (Input2, Input1).                                            *)
(***************************************************************************)
OrderedFunctions ==
    {"LessThan", "GreaterThan", "LessThanOrEqual", "GreaterThanOrEqual", "Subtract",
     "Divide"}

\* What the function of that name is of a left and a right value
Named(name, left, right) ==
    CASE name = "LessThan" -> IF left < right THEN 1 ELSE 0
      [] name = "GreaterThan" -> IF left > right THEN 1 ELSE 0
      [] name = "LessThanOrEqual" -> IF left <= right THEN 1 ELSE 0
      [] name = "GreaterThanOrEqual" -> IF left >= right THEN 1 ELSE 0
      [] name = "Subtract" -> left - right
      [] name = "Divide" -> PixelMath(SPAMATH_DIVIDE, left, right)

C23_OperandRoles ==
    (ret.op \in OrderedFunctions /\ "raster" \in {GivenInput1.kind, GivenInput2.kind}) =>
        /\ ret.status = "ok"
        /\ \A p \in PixelsOfCall :
              OutBand(1, 1)[p[1]][p[2]] =
                  Named(ret.op, ArgumentPixel(GivenInput1, p), ArgumentPixel(GivenInput2, p))

(***************************************************************************)
(* C24. Log hands Math the base-10 logarithm (SPAMATH_LOG), so that a      *)
(* pixel of 10 becomes 1, and NaturalLog hands it the natural logarithm    *)
(* (SPAMATH_NATURAL_LOG).                                                  *)
(* Violated: Log hands Math SPAMATH_NATURAL_LOG.                           *)
(***************************************************************************)
C24_LogIsBaseTen ==
    /\ ret.op = "NaturalLog" => OperationHanded = SPAMATH_NATURAL_LOG
    /\ ret.op = "Log" =>
          /\ OperationHanded = SPAMATH_LOG
          /\ ret.status = "ok"
          /\ \A p \in PixelsOfCall :
                ArgumentPixel(GivenInput1, p) = 10 => OutBand(1, 1)[p[1]][p[2]] = 1

(***************************************************************************)
(* C28. In the result of Math on two rasters a pixel is marked invalid     *)
(* whenever it is marked invalid by the mask of either operand.            *)
(* Violated: the result is a clone of the first operand with new bands;    *)
(* the mask of the second operand is never read.                           *)
(***************************************************************************)
C28_MathMergesMasks ==
    (ret.op \in SwappingFunctions /\ Len(ret.ins) = 2 /\ ret.status = "ok") =>
        \A p \in PixelsOfCall :
            (Masked(pre.heap, InRaster(1), p) \/ Masked(pre.heap, InRaster(2), p))
                => Masked(heap, OutRaster(1), p)

(***************************************************************************)
(* C25. No array is shared between the input and the output of a           *)
(* transform: no band and no mask of the raster returned is an array of    *)
(* the input raster, so that a write into one is never seen in the other.  *)
(* Violated: Reclassify returns the input's own band arrays when every     *)
(* output class is None, and the input's own mask array when none is.      *)
(***************************************************************************)
C25_NoSharedArrays ==
    (ret.op = "Reclassify" /\ ret.status = "ok") =>
        ArraysOf(OutRaster(1)) \cap ArraysOf(InRaster(1)) = {}

(***************************************************************************)
(* C26. Every band of a raster returned by a transform has HeightInPixels  *)
(* rows and WidthInPixels columns, as the raster declares, and so has its  *)
(* mask when it has one.                                                   *)
(* Violated: ExtractByPixels declares the size of the window asked for,    *)
(* while the arrays have the size of the part of it that lies in the       *)
(* raster.                                                                 *)
(***************************************************************************)
HasShape(m, R) == Rows(m) = R.HeightInPixels /\ Cols(m) = R.WidthInPixels

C26_DeclaredShape ==
    (ret.status = "ok" /\ ret.op = "ExtractByPixels") =>
        /\ \A b \in 1..Len(OutRaster(1).TheBands) : HasShape(OutBand(1, b), OutRaster(1))
        /\ OutRaster(1).TheMask # 0 => HasShape(heap[OutRaster(1).TheMask], OutRaster(1))

(***************************************************************************)
(* C27. Before it resamples, Scale sets to zero only the pixels whose      *)
(* magnitude is below the epsilon 0.00000001 (of the integers, 0 alone):   *)
(* every other pixel, the negative ones too, has its value in the array    *)
(* that is resampled, which is the input's own band, and so at the same    *)
(* place of the output when the zoom factor is 1.                          *)
(* Violated: the test is InputBand < epsilon, not |InputBand| < epsilon,   *)
(* and every negative pixel becomes 0.                                     *)
(***************************************************************************)
Magnitude(v) == IF v < 0 THEN 0 - v ELSE v
BelowEpsilon(v) == Magnitude(v) < 1       \* of an integer v: |v| < 0.00000001

C27_OnlyTinyValuesZeroed ==
    (ret.op = "Scale" /\ ret.status = "ok") =>
        \A b \in 1..InRaster(1).NumBands :
        \A p \in PixelsOf(InBand(1, b)) :
            ~BelowEpsilon(InBand(1, b)[p[1]][p[2]]) =>
                /\ heap[InRaster(1).TheBands[b]][p[1]][p[2]] = InBand(1, b)[p[1]][p[2]]
                /\ ret.params = <<1, 1>> =>
                      OutBand(1, b)[p[1]][p[2]] = InBand(1, b)[p[1]][p[2]]

(***************************************************************************)
(* C29. ExtractByPixels and NumpyCrop keep validity: when the source has a *)
(* mask, a pixel of the output is marked invalid exactly when the source   *)
(* pixel it was copied from is marked invalid.  (Every pixel of the source *)
(* has another value, which tells where an output pixel was copied from.)  *)
(* Violated: the output has no mask.                                       *)
(***************************************************************************)
CopiedFrom(p) ==
    CHOOSE q \in PixelsOf(InBand(1, 1)) :
        InBand(1, 1)[q[1]][q[2]] = OutBand(1, 1)[p[1]][p[2]]

C29_CropKeepsMask ==
    (ret.op \in {"ExtractByPixels", "NumpyCrop"} /\ ret.status = "ok"
        /\ InRaster(1).TheMask # 0) =>
        \A p \in PixelsOf(OutBand(1, 1)) :
            Masked(heap, OutRaster(1), p) <=> Masked(pre.heap, InRaster(1), CopiedFrom(p))

(***************************************************************************)
(* C30. NumpyCrop with bounds inside the raster and on pixel edges returns *)
(* a raster with those bounds: (XMax-XMin)/PixelWidth columns,             *)
(* (YMax-YMin)/|PixelHeight| rows, origin (XMin, YMax).                    *)
(* Violated: the pixel of the lower right corner is taken as the last      *)
(* column and row of the window, one more than the bounds cover.           *)
(***************************************************************************)
BoundsOf == ret.params
OnPixelEdges ==
    \A i \in 1..4 : BoundsOf[i] % 10 = 0

C30_NumpyCropBounds ==
    (ret.op = "NumpyCrop" /\ OnPixelEdges) =>
        /\ ret.status = "ok"
        /\ GetBounds(OutRaster(1)) = BoundsOf
        /\ OutRaster(1).WidthInPixels = (BoundsOf[3] - BoundsOf[1]) \div 10
        /\ OutRaster(1).HeightInPixels = (BoundsOf[4] - BoundsOf[2]) \div 10
        /\ OutRaster(1).XMin = BoundsOf[1]
        /\ OutRaster(1).YMax = BoundsOf[4]

====
